---- MODULE Spec2Model ----
(***************************************************************************)
(* Hvar-Hub back end: the stock ledger (services/stock_service.py), the    *)
(* order workflow (services/order_service.py, db/auto_init.py), the        *)
(* service-action workflow and its integration with the maintenance cycle  *)
(* (services/unified_service.py).                                          *)
(*                                                                         *)
(* The state is what the services see through the one SQLAlchemy session   *)
(* they share (db.session): the session view.  `stored` is the committed   *)
(* content of the database.  BaseModel.save() commits the whole session;   *)
(* db.session.rollback() and a failed flush/commit put the session view    *)
(* back to `stored`.  The stock service neither commits nor rolls back.    *)
(***************************************************************************)
EXTENDS Integers, Sequences, FiniteSets, TLC

VARIABLES
  items,            \* Product/Part rows: <<item_type, item_id>> -> counters
  movements,        \* StockMovement rows, in insertion order
  sa_items,         \* ServiceActionItem rows, in insertion order
  service_actions,  \* ServiceAction rows, index = id
  sa_history,       \* ServiceActionHistory rows
  orders,           \* Order rows, index = id
  history,          \* MaintenanceHistory rows
  stored,           \* the committed database: a record of the seven tables
  result,           \* what the last call returned
  call,             \* the last call: operation, id and tracking number given, fault
  before,           \* the items table as it was when the last call started
  initial,          \* the items table as it was at the start
  txns              \* the requests served concurrently, each in a session of its own

vars == <<items, movements, sa_items, service_actions, sa_history, orders,
          history, stored, result, call, before, initial, txns>>

\* ------------------------------------------------------------------ bounds
MaxInitStock == 2
MaxQty == 2
MaxMovements == 2
MaxStock == 3
MaxOrders == 2
MaxActions == 1
MaxHistory == 5
MaxSAHistory == 2
MaxFaultHistory == 1
MaxFlowMovements == 2
MaxFlowStock == 4

\* ----------------------------------------------------------------- domains
ItemTypes == {"product", "part"}
Conditions == {"valid", "damaged"}

\* The catalogue rows that exist: Part 1.  There is no Product row and no Part 2.
ExistingItems == {<<"part", 1>>}

\* A Product/Part row as far as stock goes; counters never start inconsistent.
InitStocks ==
  {s \in [current_stock : 0..MaxInitStock, current_stock_damaged : 0..MaxInitStock] :
      s.current_stock_damaged <= s.current_stock}

\* Lines a caller may pass to send_items: the well-formed ones on the part that
\* exists, and one each on a part id and a product id that do not exist, with an
\* unknown item type, with quantity 0 and with a negative quantity.
GoodSendLines ==
  {[item_type |-> k[1], item_id |-> k[2], quantity |-> q] :
      k \in ExistingItems, q \in 1..MaxQty}

SendLines ==
  GoodSendLines
  \cup {[item_type |-> "part", item_id |-> 2, quantity |-> 1],
        [item_type |-> "product", item_id |-> 1, quantity |-> 1],
        [item_type |-> "gift", item_id |-> 1, quantity |-> 1],
        [item_type |-> "part", item_id |-> 1, quantity |-> 0],
        [item_type |-> "part", item_id |-> 1, quantity |-> -1]}

GoodReceiveLines ==
  {[item_type |-> k[1], item_id |-> k[2], quantity |-> q, condition |-> c] :
      k \in ExistingItems, q \in 1..MaxQty, c \in Conditions}

ReceiveLines ==
  GoodReceiveLines
  \cup {[item_type |-> "part", item_id |-> 2, quantity |-> 1, condition |-> "valid"],
        [item_type |-> "product", item_id |-> 1, quantity |-> 1, condition |-> "valid"],
        [item_type |-> "gift", item_id |-> 1, quantity |-> 1, condition |-> "valid"],
        [item_type |-> "part", item_id |-> 1, quantity |-> 1, condition |-> "lost"],
        [item_type |-> "part", item_id |-> 1, quantity |-> 0, condition |-> "valid"],
        [item_type |-> "part", item_id |-> 1, quantity |-> -1, condition |-> "valid"]}

\* A call's list of lines: empty, one line, or two lines of which the first is
\* well formed (a list is validated as a whole before its first line is applied, so
\* what follows a malformed first line changes nothing).
Batches(G, L) == {<<>>} \cup {<<a>> : a \in L} \cup {<<a, b>> : a \in G, b \in L}

\* (service_action_id, lines) of a batched stock call: every batch on an action that
\* exists, and one well-formed line on an id that does not.
BatchCalls(n, G, L) ==
  {<<a, b>> : a \in 1..n, b \in Batches(G, L)}
  \cup {<<n + 1, <<l>>>> : l \in {x \in G : x.quantity = 1}}

\* (order_id, item_type, item_id, quantity_change, condition) of a maintenance
\* adjustment: every well-formed one on the part, and one per way of being wrong.
MaintenanceCalls(n) ==
  {<<o, "part", 1, q, c>> : o \in 1..n, q \in ((-MaxQty)..MaxQty) \ {0}, c \in Conditions}
  \cup {<<1, "part", 1, 0, "valid">>, <<1, "gift", 1, 1, "valid">>,
        <<1, "part", 1, 1, "lost">>, <<0, "part", 1, 1, "valid">>,
        <<1, "part", 0, 1, "valid">>, <<1, "part", 2, 1, "valid">>,
        <<1, "product", 1, 1, "valid">>}

\* ------------------------------------------------------------ the session
Tables ==
  [items |-> items, movements |-> movements, sa_items |-> sa_items,
   service_actions |-> service_actions, sa_history |-> sa_history,
   orders |-> orders, history |-> history]

\* get_egypt_now(): a logical clock; every write of a timestamp goes with a new
\* row in one of the logs, so the count of rows orders the calls.
get_egypt_now(mv, hist, sah) == Len(mv) + Len(hist) + Len(sah) + 1

\* ------------------------------------------------------------- the models
\* Product.get_valid_stock / Part.get_valid_stock
get_valid_stock(item) == item.current_stock - item.current_stock_damaged

\* StockService._get_item: the row, or None
HasItem(tbl, item_type, item_id) ==
  item_type \in ItemTypes /\ <<item_type, item_id>> \in DOMAIN tbl

\* --------------------------------------------------- StockService helpers
\* _update_item_stock with the valid branch moving the damaged counter as well.
update_item_stock_valid_moves_damaged(item, quantity_change, condition) ==
  LET total == item.current_stock
      damaged == item.current_stock_damaged
      check(it) == [ok |-> ~(it.current_stock_damaged > it.current_stock), item |-> it]
      both == [current_stock |-> total + quantity_change,
               current_stock_damaged |-> damaged + quantity_change]
  IN IF condition = "valid"
       THEN IF total + quantity_change < 0
              THEN [ok |-> FALSE, item |-> item]
              ELSE check(both)
     ELSE IF condition = "damaged"
       THEN IF quantity_change > 0
              THEN check(both)
              ELSE IF damaged + quantity_change < 0
                     THEN [ok |-> FALSE, item |-> item]
                     ELSE check(both)
     ELSE check(item)

\* _update_item_stock with a damaged receipt counted as damaged but not in the total.
update_item_stock_damaged_not_in_total(item, quantity_change, condition) ==
  LET total == item.current_stock
      damaged == item.current_stock_damaged
      check(it) == [ok |-> ~(it.current_stock_damaged > it.current_stock), item |-> it]
      both == [current_stock |-> total + quantity_change,
               current_stock_damaged |-> damaged + quantity_change]
  IN IF condition = "valid"
       THEN IF total + quantity_change < 0
              THEN [ok |-> FALSE, item |-> item]
              ELSE check([item EXCEPT !.current_stock = total + quantity_change])
     ELSE IF condition = "damaged"
       THEN IF quantity_change > 0
              THEN check([item EXCEPT !.current_stock_damaged = damaged + quantity_change])
              ELSE IF damaged + quantity_change < 0
                     THEN [ok |-> FALSE, item |-> item]
                     ELSE check(both)
     ELSE check(item)

\* _update_item_stock mutates the row it is given and returns (ok, ...); the row is
\* returned as it is left, also when ok is False.
update_item_stock(item, quantity_change, condition) ==
  LET total == item.current_stock
      damaged == item.current_stock_damaged
      check(it) == [ok |-> ~(it.current_stock_damaged > it.current_stock), item |-> it]
      both == [current_stock |-> total + quantity_change,
               current_stock_damaged |-> damaged + quantity_change]
  IN IF condition = "valid"
       THEN IF total + quantity_change < 0
              THEN [ok |-> FALSE, item |-> item]
              ELSE check([item EXCEPT !.current_stock = total + quantity_change])
     ELSE IF condition = "damaged"
       THEN IF quantity_change > 0
              THEN check(both)
              ELSE IF damaged + quantity_change < 0
                     THEN [ok |-> FALSE, item |-> item]
                     ELSE check(both)
     ELSE check(item)

validate_maintenance_inputs(order_id, item_type, item_id, quantity_change, condition) ==
  /\ quantity_change # 0
  /\ item_type \in {"product", "part"}
  /\ condition \in {"valid", "damaged"}
  /\ order_id > 0
  /\ item_id > 0

\* _validate_send_inputs without the check of the quantities.
validate_send_inputs_any_quantity(items_to_send) ==
  /\ items_to_send # <<>>
  /\ \A i \in 1..Len(items_to_send) :
       items_to_send[i].item_type \in {"product", "part"}

validate_send_inputs(items_to_send) ==
  /\ items_to_send # <<>>
  /\ \A i \in 1..Len(items_to_send) :
       /\ items_to_send[i].item_type \in {"product", "part"}
       /\ items_to_send[i].quantity > 0

validate_receive_inputs(items_received) ==
  /\ items_received # <<>>
  /\ \A i \in 1..Len(items_received) :
       /\ items_received[i].item_type \in {"product", "part"}
       /\ items_received[i].quantity > 0
       /\ items_received[i].condition \in {"valid", "damaged"}

\* A StockMovement row.
StockMovement(item_type, item_id, quantity_change, movement_type, condition, order_id, service_action_id) ==
  [item_type |-> item_type, item_id |-> item_id, quantity_change |-> quantity_change,
   movement_type |-> movement_type, condition |-> condition,
   order_id |-> order_id, service_action_id |-> service_action_id]

\* ServiceActionItem.query.filter_by(service_action_id, item_type, item_id).first():
\* the index of the first matching row, 0 when there is none.
FirstServiceItem(rows, service_action_id, item_type, item_id) ==
  LET hits == {i \in 1..Len(rows) :
                 /\ rows[i].service_action_id = service_action_id
                 /\ rows[i].item_type = item_type
                 /\ rows[i].item_id = item_id}
  IN IF hits = {} THEN 0 ELSE CHOOSE i \in hits : \A j \in hits : i <= j

ServiceActionItem(service_action_id, item_type, item_id) ==
  [service_action_id |-> service_action_id, item_type |-> item_type, item_id |-> item_id,
   quantity_to_send |-> 0, quantity_received |-> 0, condition_received |-> "none",
   sent_at |-> 0, received_at |-> 0]

\* What a call hands back: the operation, success, the id of the row it returns
\* (0 for none) and, for the stock calls, the lines it reports as applied
\* ('items_sent', 'items_received', the one adjustment).
Result(op, ok, id, lines) ==
  [op |-> op, ok |-> ok, id |-> id, lines |-> lines, err |-> "", is_existing |-> FALSE]

\* (False, None, error): err names the check that refused the call.
Rejected(op, err) ==
  [op |-> op, ok |-> FALSE, id |-> 0, lines |-> <<>>, err |-> err, is_existing |-> FALSE]

\* (True, {...}, None) or (False, None, error) of a stock call that left `r`.
StockResult(op, r, id, lines) ==
  IF r.ok THEN Result(op, TRUE, id, lines) ELSE Rejected(op, r.err)

\* The arguments of a call that the properties refer to, and the commit that
\* raised during it ("none" when the storage worked).
Call(op, id, tracking_number, fault) ==
  [op |-> op, id |-> id, tracking_number |-> tracking_number, fault |-> fault]

\* ---------------------------------------------------- StockService calls
\* The part of the session the stock calls write.
StockState(it, mv, si) == [items |-> it, movements |-> mv, sa_items |-> si]

\* The requests served at the same time, each by a worker with a session and a
\* transaction of its own.
Transactions == {1, 2}

\* A request that has not started: nothing read, nothing written.
Idle ==
  [pc |-> "idle", op |-> "none", service_action_id |-> 0, lines |-> <<>>,
   read |-> StockState(<<>>, <<>>, <<>>), view |-> StockState(<<>>, <<>>, <<>>),
   ok |-> FALSE]

NoTransactions == [t \in Transactions |-> Idle]

\* One pass of send_items' loop over a line; `st` is left as the pass leaves it and
\* err names the check that stopped it.
SendLine(st, service_action_id, line, hist, sah) ==
  LET key == <<line.item_type, line.item_id>> IN
  IF ~HasItem(st.items, line.item_type, line.item_id)
    THEN [ok |-> FALSE, st |-> st, err |-> "item"]
  ELSE IF get_valid_stock(st.items[key]) < line.quantity
    THEN [ok |-> FALSE, st |-> st, err |-> "stock"]
  ELSE
    LET upd == update_item_stock(st.items[key], -line.quantity, "valid")
        st1 == [st EXCEPT !.items[key] = upd.item]
        mv == Append(st1.movements,
                     StockMovement(line.item_type, line.item_id, -line.quantity,
                                   "send", "valid", 0, service_action_id))
        now == get_egypt_now(mv, hist, sah)
        i == FirstServiceItem(st1.sa_items, service_action_id, line.item_type, line.item_id)
        si == IF i > 0
                THEN [st1.sa_items EXCEPT ![i].quantity_to_send = line.quantity,
                                          ![i].sent_at = now]
                ELSE Append(st1.sa_items,
                            [ServiceActionItem(service_action_id, line.item_type, line.item_id)
                               EXCEPT !.quantity_to_send = line.quantity, !.sent_at = now])
    IN IF ~upd.ok
         THEN [ok |-> FALSE, st |-> st1, err |-> "counters"]
         ELSE [ok |-> TRUE, st |-> StockState(st1.items, mv, si), err |-> ""]

\* One pass of the loop of receive_items and receive_returns (the two differ in
\* the note they write on the row only).
ReceiveLine(st, service_action_id, line, hist, sah) ==
  LET key == <<line.item_type, line.item_id>> IN
  IF ~HasItem(st.items, line.item_type, line.item_id)
    THEN [ok |-> FALSE, st |-> st, err |-> "item"]
  ELSE
    LET upd == update_item_stock(st.items[key], line.quantity, line.condition)
        st1 == [st EXCEPT !.items[key] = upd.item]
        mv == Append(st1.movements,
                     StockMovement(line.item_type, line.item_id, line.quantity,
                                   "receive", line.condition, 0, service_action_id))
        now == get_egypt_now(mv, hist, sah)
        i == FirstServiceItem(st1.sa_items, service_action_id, line.item_type, line.item_id)
        si == IF i > 0
                THEN [st1.sa_items EXCEPT ![i].quantity_received = line.quantity,
                                          ![i].condition_received = line.condition,
                                          ![i].received_at = now]
                ELSE Append(st1.sa_items,
                            [ServiceActionItem(service_action_id, line.item_type, line.item_id)
                               EXCEPT !.quantity_received = line.quantity,
                                      !.condition_received = line.condition,
                                      !.received_at = now])
    IN IF ~upd.ok
         THEN [ok |-> FALSE, st |-> st1, err |-> "counters"]
         ELSE [ok |-> TRUE, st |-> StockState(st1.items, mv, si), err |-> ""]

\* for item_data in items_to_send: ... ; a failing pass returns at once.
RECURSIVE SendLoop(_, _, _, _, _, _)
SendLoop(st, service_action_id, lines, k, hist, sah) ==
  IF k > Len(lines) THEN [ok |-> TRUE, st |-> st, err |-> ""]
  ELSE LET r == SendLine(st, service_action_id, lines[k], hist, sah)
       IN IF r.ok THEN SendLoop(r.st, service_action_id, lines, k + 1, hist, sah) ELSE r

RECURSIVE ReceiveLoop(_, _, _, _, _, _)
ReceiveLoop(st, service_action_id, lines, k, hist, sah) ==
  IF k > Len(lines) THEN [ok |-> TRUE, st |-> st, err |-> ""]
  ELSE LET r == ReceiveLine(st, service_action_id, lines[k], hist, sah)
       IN IF r.ok THEN ReceiveLoop(r.st, service_action_id, lines, k + 1, hist, sah) ELSE r

\* StockService.send_items as a function of the session: (ok, session after).
send_items(st, actions, service_action_id, items_to_send, hist, sah) ==
  IF service_action_id \notin 1..Len(actions)
    THEN [ok |-> FALSE, st |-> st, err |-> "not_found"]
  ELSE IF ~validate_send_inputs(items_to_send)
    THEN [ok |-> FALSE, st |-> st, err |-> "validation"]
  ELSE SendLoop(st, service_action_id, items_to_send, 1, hist, sah)

\* StockService.receive_items
receive_items(st, actions, service_action_id, items_received, hist, sah) ==
  IF service_action_id \notin 1..Len(actions)
    THEN [ok |-> FALSE, st |-> st, err |-> "not_found"]
  ELSE IF ~validate_receive_inputs(items_received)
    THEN [ok |-> FALSE, st |-> st, err |-> "validation"]
  ELSE ReceiveLoop(st, service_action_id, items_received, 1, hist, sah)

\* StockService.receive_returns
receive_returns(st, actions, service_action_id, items_returned, hist, sah) ==
  IF service_action_id \notin 1..Len(actions)
    THEN [ok |-> FALSE, st |-> st, err |-> "not_found"]
  ELSE IF ~validate_receive_inputs(items_returned)
    THEN [ok |-> FALSE, st |-> st, err |-> "validation"]
  ELSE ReceiveLoop(st, service_action_id, items_returned, 1, hist, sah)

\* StockService.maintenance_adjustment
maintenance_adjustment(st, order_id, item_type, item_id, quantity_change, condition) ==
  LET key == <<item_type, item_id>> IN
  IF ~validate_maintenance_inputs(order_id, item_type, item_id, quantity_change, condition)
    THEN [ok |-> FALSE, st |-> st, err |-> "validation"]
  ELSE IF ~HasItem(st.items, item_type, item_id)
    THEN [ok |-> FALSE, st |-> st, err |-> "item"]
  ELSE
    LET upd == update_item_stock(st.items[key], quantity_change, condition)
        st1 == [st EXCEPT !.items[key] = upd.item]
    IN IF ~upd.ok
         THEN [ok |-> FALSE, st |-> st1, err |-> "counters"]
         ELSE [ok |-> TRUE,
               st |-> [st1 EXCEPT !.movements =
                         Append(@, StockMovement(item_type, item_id, quantity_change,
                                                 "maintenance", condition, order_id, 0))],
               err |-> ""]

Session == StockState(items, movements, sa_items)

\* The ledger has room for the rows a call of n lines may add.
Room(n) == Len(movements) + n <= MaxMovements

\* The counters stay within the range explored.
InRange(tbl) ==
  \A k \in DOMAIN tbl :
    tbl[k].current_stock <= MaxStock /\ tbl[k].current_stock_damaged <= MaxStock

OtherTablesUnchanged ==
  UNCHANGED <<service_actions, sa_history, orders, history, stored, initial, txns>>

MaintenanceAdjustment ==
  \E a \in MaintenanceCalls(Len(orders)) :
    LET r == maintenance_adjustment(Session, a[1], a[2], a[3], a[4], a[5])
    IN /\ Room(1)
       /\ InRange(r.st.items)
       /\ items' = r.st.items
       /\ movements' = r.st.movements
       /\ sa_items' = r.st.sa_items
       /\ result' = StockResult("maintenance_adjustment", r, 0,
                               <<[item_type |-> a[2], item_id |-> a[3],
                                  quantity |-> a[4], condition |-> a[5]]>>)
       /\ call' = Call("maintenance_adjustment", a[1], "", "none")
       /\ before' = items
       /\ OtherTablesUnchanged

SendItems ==
  \E a \in BatchCalls(Len(service_actions), GoodSendLines, SendLines) :
    LET service_action_id == a[1]
        lines == a[2]
        r == send_items(Session, service_actions, service_action_id, lines,
                        history, sa_history)
    IN /\ Room(Len(lines))
       /\ InRange(r.st.items)
       /\ items' = r.st.items
       /\ movements' = r.st.movements
       /\ sa_items' = r.st.sa_items
       /\ result' = StockResult("send_items", r, service_action_id, lines)
       /\ call' = Call("send_items", service_action_id, "", "none")
       /\ before' = items
       /\ OtherTablesUnchanged

ReceiveItems ==
  \E a \in BatchCalls(Len(service_actions), GoodReceiveLines, ReceiveLines) :
    LET service_action_id == a[1]
        lines == a[2]
        r == receive_items(Session, service_actions, service_action_id, lines,
                           history, sa_history)
    IN /\ Room(Len(lines))
       /\ InRange(r.st.items)
       /\ items' = r.st.items
       /\ movements' = r.st.movements
       /\ sa_items' = r.st.sa_items
       /\ result' = StockResult("receive_items", r, service_action_id, lines)
       /\ call' = Call("receive_items", service_action_id, "", "none")
       /\ before' = items
       /\ OtherTablesUnchanged

ReceiveReturns ==
  \E a \in BatchCalls(Len(service_actions), GoodReceiveLines, ReceiveLines) :
    LET service_action_id == a[1]
        lines == a[2]
        r == receive_returns(Session, service_actions, service_action_id, lines,
                             history, sa_history)
    IN /\ Room(Len(lines))
       /\ InRange(r.st.items)
       /\ items' = r.st.items
       /\ movements' = r.st.movements
       /\ sa_items' = r.st.sa_items
       /\ result' = StockResult("receive_returns", r, service_action_id, lines)
       /\ call' = Call("receive_returns", service_action_id, "", "none")
       /\ before' = items
       /\ OtherTablesUnchanged

\* ------------------------------------------------------------ the entities
OrderStatus == {"received", "in_maintenance", "completed", "failed", "sending", "returned"}

\* An Order row; "none"/""/0 stand for NULL, timestamps are clock values.
Order(tracking_number, status) ==
  [tracking_number |-> tracking_number, status |-> status, return_condition |-> "none",
   scanned_at |-> 0, received_at |-> 0, maintenance_started_at |-> 0,
   maintenance_completed_at |-> 0, maintenance_failed_at |-> 0, sent_at |-> 0,
   rescheduled_at |-> 0, returned_at |-> 0,
   new_tracking_number |-> "", new_cod_amount |-> 0,
   is_refund_or_replace |-> FALSE, is_action_completed |-> FALSE,
   is_service_action_order |-> FALSE, service_action_id |-> 0]

\* A ServiceAction row.
ServiceAction(action_type, original_tracking_number, refund_amount) ==
  [action_type |-> action_type, status |-> "created",
   original_tracking_number |-> original_tracking_number,
   new_tracking_number |-> "", refund_amount |-> refund_amount,
   is_integrated_with_maintenance |-> FALSE, maintenance_order_id |-> 0,
   integrated_at |-> 0, refund_processed |-> FALSE, final_status |-> ""]

\* A MaintenanceHistory row that records every action as 'received'.
MaintenanceHistory_action_not_kept(order_id, action, timestamp) ==
  [order_id |-> order_id, action |-> "received", timestamp |-> timestamp,
   service_action_id |-> 0]

\* A MaintenanceHistory row; service_action_id is the one its action_data names,
\* 0 when it names none.
MaintenanceHistory(order_id, action, timestamp) ==
  [order_id |-> order_id, action |-> action, timestamp |-> timestamp,
   service_action_id |-> 0]

\* A ServiceActionHistory row.
ServiceActionHistory(service_action_id, action, to_status) ==
  [service_action_id |-> service_action_id, action |-> action, to_status |-> to_status]

\* ------------------------------------------------------------ the database
\* db.session next to the committed database.
DB(session, committed) == [session |-> session, stored |-> committed]

\* db.session.commit(), as BaseModel.save() does after db.session.add(self)
commit(db) == [db EXCEPT !.stored = db.session]

\* db.session.rollback(): pending rows are dropped, changed rows are reloaded.
rollback_to_empty_history(db) ==
  [db EXCEPT !.session = [db.stored EXCEPT !.history = <<>>]]

rollback(db) == [db EXCEPT !.session = db.stored]

\* Order.get_by_tracking_number: the id of the first such row, 0 for None.
get_by_tracking_number(rows, tracking_number) ==
  LET hits == {i \in 1..Len(rows) : rows[i].tracking_number = tracking_number}
  IN IF hits = {} THEN 0 ELSE CHOOSE i \in hits : \A j \in hits : i <= j

\* ServiceAction.query.filter_by(new_tracking_number=...).first()
by_new_tracking_number(rows, tracking_number) ==
  LET hits == {i \in 1..Len(rows) : rows[i].new_tracking_number = tracking_number}
  IN IF hits = {} THEN 0 ELSE CHOOSE i \in hits : \A j \in hits : i <= j

\* ServiceAction.query.filter_by(original_tracking_number=...).first()
by_original_tracking_number(rows, tracking_number) ==
  LET hits == {i \in 1..Len(rows) : rows[i].original_tracking_number = tracking_number}
  IN IF hits = {} THEN 0 ELSE CHOOSE i \in hits : \A j \in hits : i <= j

\* ----------------------------------------------------- the order workflow
MaintenanceAction ==
  {"received", "start_maintenance", "complete_maintenance", "fail_maintenance",
   "reschedule", "send_order", "confirm_send", "return_order", "move_to_returns",
   "refund_or_replace", "set_return_condition"}

ACTION_STATUS_MAP ==
  [a \in MaintenanceAction \ {"set_return_condition"} |->
     CASE a = "received" -> "received"
       [] a = "start_maintenance" -> "in_maintenance"
       [] a = "complete_maintenance" -> "completed"
       [] a = "fail_maintenance" -> "failed"
       [] a = "reschedule" -> "in_maintenance"
       [] a = "send_order" -> "sending"
       [] a = "confirm_send" -> "sending"
       [] a = "return_order" -> "returned"
       [] a = "move_to_returns" -> "returned"
       [] a = "refund_or_replace" -> "completed"]

\* The transition table with a way out of SENDING.
valid_transitions_sending_returns ==
  [st \in OrderStatus |->
     CASE st = "received" -> {"in_maintenance", "returned"}
       [] st = "in_maintenance" -> {"completed", "failed"}
       [] st = "completed" -> {"sending"}
       [] st = "failed" -> {"in_maintenance", "sending", "returned", "completed"}
       [] st = "sending" -> {"returned"}
       [] st = "returned" -> {}]

\* The transition table with no way out of COMPLETED.
valid_transitions_completed_is_final ==
  [st \in OrderStatus |->
     CASE st = "received" -> {"in_maintenance", "returned"}
       [] st = "in_maintenance" -> {"completed", "failed"}
       [] st = "failed" -> {"in_maintenance", "sending", "returned", "completed"}
       [] OTHER -> {}]

\* Order.can_transition_to
valid_transitions ==
  [st \in OrderStatus |->
     CASE st = "received" -> {"in_maintenance", "returned"}
       [] st = "in_maintenance" -> {"completed", "failed"}
       [] st = "completed" -> {"sending"}
       [] st = "failed" -> {"in_maintenance", "sending", "returned", "completed"}
       [] st = "sending" -> {}
       [] st = "returned" -> {}]

\* can_transition_to letting a completed order go back into maintenance.
can_transition_to_reopens_completed(order, new_status) ==
  \/ new_status \in valid_transitions[order.status]
  \/ order.status = "completed" /\ new_status = "in_maintenance"

can_transition_to(order, new_status) == new_status \in valid_transitions[order.status]

\* action_data: present is FALSE for None and {}; "" and 0 stand for a key that is
\* missing or falsy.  The tracking numbers given carry no surrounding blanks.
ActionData(present, new_tracking_number, new_cod, return_condition) ==
  [present |-> present, new_tracking_number |-> new_tracking_number,
   new_cod |-> new_cod, return_condition |-> return_condition]

ReturnActions == {"move_to_returns", "return_order", "set_return_condition"}

\* validate_action_data without its check of return_condition.
validate_action_data_condition_optional(action, action_data) ==
  IF ~action_data.present
    THEN action \notin ReturnActions
    ELSE /\ action_data.new_tracking_number # ""
              => ~(Len(action_data.new_tracking_number) < 3
                   \/ Len(action_data.new_tracking_number) > 50)
         /\ action_data.new_cod # 0 => ~(action_data.new_cod < 0)

\* OrderService.validate_action_data
validate_action_data(action, action_data) ==
  IF ~action_data.present
    THEN action \notin ReturnActions
    ELSE /\ action_data.new_tracking_number # ""
              => ~(Len(action_data.new_tracking_number) < 3
                   \/ Len(action_data.new_tracking_number) > 50)
         /\ action_data.new_cod # 0 => ~(action_data.new_cod < 0)
         /\ action \in ReturnActions
              => action_data.return_condition \in {"valid", "damaged"}

\* setattr(order, timestamp_updates[action], now)
timestamp_updates(order, action, now) ==
  CASE action = "start_maintenance" -> [order EXCEPT !.maintenance_started_at = now]
    [] action = "complete_maintenance" -> [order EXCEPT !.maintenance_completed_at = now]
    [] action = "fail_maintenance" -> [order EXCEPT !.maintenance_failed_at = now]
    [] action = "send_order" -> [order EXCEPT !.sent_at = now]
    [] action = "reschedule" -> [order EXCEPT !.rescheduled_at = now]
    [] action \in {"return_order", "move_to_returns"} -> [order EXCEPT !.returned_at = now]
    [] OTHER -> order

\* The data storage capturing a return condition whatever the action.
store_action_data_any_action(order, action, action_data) ==
  IF action_data.present /\ action_data.return_condition \in {"valid", "damaged"}
    THEN [order EXCEPT !.return_condition = action_data.return_condition]
    ELSE order

\* The data storage capturing the return condition of return_order only.
store_action_data_return_order_only(order, action, action_data) ==
  IF action_data.present /\ action = "return_order"
     /\ action_data.return_condition \in {"valid", "damaged"}
    THEN [order EXCEPT !.return_condition = action_data.return_condition]
    ELSE order

\* perform_action's "action-specific data storage"
store_action_data(order, action, action_data) ==
  IF ~action_data.present THEN order
  ELSE
    LET o1 == IF action \in {"send_order", "refund_or_replace"}
                THEN [order EXCEPT
                        !.new_tracking_number =
                           IF action_data.new_tracking_number # ""
                             THEN action_data.new_tracking_number ELSE @,
                        !.new_cod_amount =
                           IF action_data.new_cod # 0 THEN action_data.new_cod ELSE @]
                ELSE order
        o2 == IF /\ action \in {"move_to_returns", "return_order"}
                 /\ action_data.return_condition \in {"valid", "damaged"}
                THEN [o1 EXCEPT !.return_condition = action_data.return_condition]
                ELSE o1
        o3 == IF action = "refund_or_replace"
                THEN [o2 EXCEPT !.is_refund_or_replace = TRUE, !.is_action_completed = TRUE]
                ELSE o2
    IN IF action = "send_order" THEN [o3 EXCEPT !.is_action_completed = TRUE] ELSE o3

\* perform_action setting the new status before it validates the payload.
perform_action_status_before_validation(db, order_id, action, action_data, fault) ==
  LET s == db.session
      op == "perform_action"
  IN
  IF order_id \notin 1..Len(s.orders)
    THEN [db |-> db, result |-> Rejected(op, "not_found")]
  ELSE
    LET order == s.orders[order_id]
        now == get_egypt_now(s.movements, s.history, s.sa_history)
        moved == [order EXCEPT !.status = ACTION_STATUS_MAP[action]]
        save(o) ==
          LET s1 == [s EXCEPT !.orders[order_id] = o]
              s2 == [s1 EXCEPT !.history =
                       Append(@, MaintenanceHistory(order_id, action, now))]
          IN [db |-> commit(DB(s2, s1)), result |-> Result(op, TRUE, order_id, <<>>)]
    IN
    IF action = "set_return_condition"
      THEN IF order.status # "returned"
             THEN [db |-> db, result |-> Rejected(op, "transition")]
           ELSE IF ~validate_action_data(action, action_data)
             THEN [db |-> db, result |-> Rejected(op, "validation")]
           ELSE save([order EXCEPT !.return_condition =
                        IF action_data.return_condition = "valid"
                          THEN "valid" ELSE "damaged"])
    ELSE IF ~can_transition_to(order, ACTION_STATUS_MAP[action])
      THEN [db |-> db, result |-> Rejected(op, "transition")]
    ELSE IF ~validate_action_data(action, action_data)
      THEN [db |-> DB([s EXCEPT !.orders[order_id] = moved], db.stored),
            result |-> Rejected(op, "validation")]
    ELSE save(store_action_data(timestamp_updates(moved, action, now),
                                action, action_data))

\* OrderService.perform_action.  fault names the commit that raises, if any:
\* "order_save", "history_save" or "none".
perform_action(db, order_id, action, action_data, fault) ==
  LET s == db.session
      op == "perform_action"
  IN
  IF order_id \notin 1..Len(s.orders)
    THEN [db |-> db, result |-> Rejected(op, "not_found")]
  ELSE
    LET order == s.orders[order_id]
        now == get_egypt_now(s.movements, s.history, s.sa_history)
        \* order.save(); history.save(); except: db.session.rollback()
        save(o) ==
          LET s1 == [s EXCEPT !.orders[order_id] = o]
              s2 == [s1 EXCEPT !.history =
                       Append(@, MaintenanceHistory(order_id, action, now))]
          IN IF fault = "order_save"
               THEN [db |-> rollback(DB(s1, db.stored)), result |-> Rejected(op, "storage")]
             ELSE IF fault = "history_save"
               THEN [db |-> rollback(DB(s2, s1)), result |-> Rejected(op, "storage")]
             ELSE [db |-> commit(DB(s2, s1)), result |-> Result(op, TRUE, order_id, <<>>)]
    IN
    IF action = "set_return_condition"
      THEN IF order.status # "returned"
             THEN [db |-> db, result |-> Rejected(op, "transition")]
           ELSE IF ~validate_action_data(action, action_data)
             THEN [db |-> db, result |-> Rejected(op, "validation")]
           ELSE save([order EXCEPT !.return_condition =
                        IF action_data.return_condition = "valid"
                          THEN "valid" ELSE "damaged"])
    ELSE IF action \notin DOMAIN ACTION_STATUS_MAP
      THEN [db |-> db, result |-> Rejected(op, "action")]
    ELSE IF ~can_transition_to(order, ACTION_STATUS_MAP[action])
      THEN [db |-> db, result |-> Rejected(op, "transition")]
    ELSE IF ~validate_action_data(action, action_data)
      THEN [db |-> db, result |-> Rejected(op, "validation")]
    ELSE save(store_action_data(
                timestamp_updates([order EXCEPT !.status = ACTION_STATUS_MAP[action]],
                                  action, now),
                action, action_data))

\* ------------------------------------------- the service-action workflow
ServiceActionType == {"part_replace", "full_replace", "return_from_customer"}

\* for item in items_to_send: the checks create_service_action makes on a line
item_exists(tbl, item) ==
  item.item_type \in {"product", "part"} /\ HasItem(tbl, item.item_type, item.item_id)

\* create_service_action refusing a negative refund amount only.
create_service_action_refund_not_negative(db, action_type, original_tracking, items_to_send, refund_amount) ==
  LET s == db.session
      op == "create_service_action"
      replacement == action_type \in {"part_replace", "full_replace"}
      id == Len(s.service_actions) + 1
      s1 == [s EXCEPT !.service_actions =
               Append(@, ServiceAction(action_type, original_tracking, refund_amount))]
      s2 == [s1 EXCEPT !.sa_items =
               @ \o [i \in 1..Len(items_to_send) |->
                       [ServiceActionItem(id, items_to_send[i].item_type,
                                          items_to_send[i].item_id)
                          EXCEPT !.quantity_to_send = items_to_send[i].quantity]]]
  IN
  IF original_tracking = ""
    THEN [db |-> db, result |-> Rejected(op, "original_tracking")]
  ELSE IF replacement /\ items_to_send = <<>>
    THEN [db |-> db, result |-> Rejected(op, "items")]
  ELSE IF replacement
          /\ \E i \in 1..Len(items_to_send) : ~item_exists(s.items, items_to_send[i])
    THEN [db |-> db, result |-> Rejected(op, "item")]
  ELSE IF action_type = "return_from_customer" /\ refund_amount < 0
    THEN [db |-> db, result |-> Rejected(op, "refund_amount")]
  ELSE IF replacement
    THEN [db |-> DB(s2, s1), result |-> Result(op, TRUE, id, <<>>)]
  ELSE [db |-> DB(s1, s1), result |-> Result(op, TRUE, id, <<>>)]

\* UnifiedService.create_service_action
create_service_action(db, action_type, original_tracking, items_to_send, refund_amount) ==
  LET s == db.session
      op == "create_service_action"
      replacement == action_type \in {"part_replace", "full_replace"}
      id == Len(s.service_actions) + 1
      s1 == [s EXCEPT !.service_actions =
               Append(@, ServiceAction(action_type, original_tracking, refund_amount))]
      s2 == [s1 EXCEPT !.sa_items =
               @ \o [i \in 1..Len(items_to_send) |->
                       [ServiceActionItem(id, items_to_send[i].item_type,
                                          items_to_send[i].item_id)
                          EXCEPT !.quantity_to_send = items_to_send[i].quantity]]]
  IN
  IF original_tracking = ""
    THEN [db |-> db, result |-> Rejected(op, "original_tracking")]
  ELSE IF replacement /\ items_to_send = <<>>
    THEN [db |-> db, result |-> Rejected(op, "items")]
  ELSE IF replacement
          /\ \E i \in 1..Len(items_to_send) : ~item_exists(s.items, items_to_send[i])
    THEN [db |-> db, result |-> Rejected(op, "item")]
  ELSE IF action_type = "return_from_customer" /\ refund_amount <= 0
    THEN [db |-> db, result |-> Rejected(op, "refund_amount")]
  ELSE IF replacement
    THEN [db |-> DB(s2, s1), result |-> Result(op, TRUE, id, <<>>)]
  ELSE [db |-> DB(s1, s1), result |-> Result(op, TRUE, id, <<>>)]

\* A service_actions table without the unique index on new_tracking_number.
new_tracking_taken_not_indexed(rows, id, tracking_number) == FALSE

\* The unique index on service_actions.new_tracking_number refuses the row.
new_tracking_taken(rows, id, tracking_number) ==
  \E i \in 1..Len(rows) : i # id /\ rows[i].new_tracking_number = tracking_number

\* UnifiedService.confirm_service_action
confirm_service_action(db, action_id, new_tracking_number) ==
  LET s == db.session
      op == "confirm_service_action"
  IN
  IF action_id \notin 1..Len(s.service_actions)
    THEN [db |-> db, result |-> Rejected(op, "not_found")]
  ELSE IF new_tracking_number = "" \/ Len(new_tracking_number) < 3
    THEN [db |-> db, result |-> Rejected(op, "tracking_number")]
  ELSE
    LET s1 == [s EXCEPT !.service_actions[action_id].status = "confirmed",
                        !.service_actions[action_id].new_tracking_number =
                           new_tracking_number]
        s2 == [s1 EXCEPT !.sa_history =
                 Append(@, ServiceActionHistory(action_id, "status_change", "confirmed"))]
    IN IF new_tracking_taken(s.service_actions, action_id, new_tracking_number)
         THEN [db |-> rollback(DB(s1, db.stored)), result |-> Rejected(op, "storage")]
         ELSE [db |-> DB(s2, s2), result |-> Result(op, TRUE, action_id, <<>>)]

\* UnifiedService.move_to_pending_receive
move_to_pending_receive(db, action_id) ==
  LET s == db.session
      op == "move_to_pending_receive"
  IN
  IF action_id \notin 1..Len(s.service_actions)
    THEN [db |-> db, result |-> Rejected(op, "not_found")]
  ELSE
    LET s1 == [s EXCEPT !.service_actions[action_id].status = "pending_receive"]
        s2 == [s1 EXCEPT !.sa_history =
                 Append(@, ServiceActionHistory(action_id, "status_change",
                                                "pending_receive"))]
    IN [db |-> DB(s2, s2), result |-> Result(op, TRUE, action_id, <<>>)]

\* The integration without the check of the action's status.
integrate_with_maintenance_cycle_any_status(db, service_action_tracking, fault) ==
  LET s == db.session
      op == "integrate_with_maintenance_cycle"
      sa == by_new_tracking_number(s.service_actions, service_action_tracking)
      now == get_egypt_now(s.movements, s.history, s.sa_history)
      id == Len(s.orders) + 1
      order == [Order(service_action_tracking, "received") EXCEPT
                  !.is_service_action_order = TRUE, !.service_action_id = sa,
                  !.scanned_at = now, !.received_at = now]
      s1 == [s EXCEPT !.orders = Append(@, order)]
      s2 == [s1 EXCEPT !.history =
               Append(@, [MaintenanceHistory(id, "received", now) EXCEPT
                            !.service_action_id = sa])]
      s3 == [s2 EXCEPT !.service_actions[sa].is_integrated_with_maintenance = TRUE,
                       !.service_actions[sa].integrated_at = now,
                       !.service_actions[sa].maintenance_order_id = id]
  IN
  IF service_action_tracking = ""
    THEN [db |-> db, result |-> Rejected(op, "tracking_number")]
  ELSE IF sa = 0
    THEN [db |-> db, result |-> Rejected(op, "not_found")]
  ELSE IF \/ get_by_tracking_number(s.orders, service_action_tracking) # 0
          \/ fault = "order_save"
    THEN [db |-> rollback(DB(s1, db.stored)), result |-> Rejected(op, "storage")]
  ELSE IF fault = "history_save"
    THEN [db |-> rollback(DB(s2, s1)), result |-> Rejected(op, "storage")]
  ELSE IF fault = "sa_save"
    THEN [db |-> rollback(DB(s3, s2)), result |-> Rejected(op, "storage")]
  ELSE [db |-> DB(s3, s3), result |-> Result(op, TRUE, id, <<>>)]

\* UnifiedService.integrate_with_maintenance_cycle.  fault names the commit that
\* raises, if any: "order_save", "history_save", "sa_save" or "none".
integrate_with_maintenance_cycle(db, service_action_tracking, fault) ==
  LET s == db.session
      op == "integrate_with_maintenance_cycle"
      sa == by_new_tracking_number(s.service_actions, service_action_tracking)
      now == get_egypt_now(s.movements, s.history, s.sa_history)
      id == Len(s.orders) + 1
      order == [Order(service_action_tracking, "received") EXCEPT
                  !.is_service_action_order = TRUE, !.service_action_id = sa,
                  !.scanned_at = now, !.received_at = now]
      s1 == [s EXCEPT !.orders = Append(@, order)]
      s2 == [s1 EXCEPT !.history =
               Append(@, [MaintenanceHistory(id, "received", now) EXCEPT
                            !.service_action_id = sa])]
      s3 == [s2 EXCEPT !.service_actions[sa].is_integrated_with_maintenance = TRUE,
                       !.service_actions[sa].integrated_at = now,
                       !.service_actions[sa].maintenance_order_id = id]
  IN
  IF service_action_tracking = ""
    THEN [db |-> db, result |-> Rejected(op, "tracking_number")]
  ELSE IF sa = 0
    THEN [db |-> db, result |-> Rejected(op, "not_found")]
  ELSE IF s.service_actions[sa].status # "pending_receive"
    THEN [db |-> db, result |-> Rejected(op, "not_pending")]
  ELSE IF \/ get_by_tracking_number(s.orders, service_action_tracking) # 0
          \/ fault = "order_save"
    THEN [db |-> rollback(DB(s1, db.stored)), result |-> Rejected(op, "storage")]
  ELSE IF fault = "history_save"
    THEN [db |-> rollback(DB(s2, s1)), result |-> Rejected(op, "storage")]
  ELSE IF fault = "sa_save"
    THEN [db |-> rollback(DB(s3, s2)), result |-> Rejected(op, "storage")]
  ELSE [db |-> DB(s3, s3), result |-> Result(op, TRUE, id, <<>>)]

\* UnifiedService.get_service_action_by_tracking
get_service_action_by_tracking(rows, tracking_number) ==
  IF tracking_number = "" THEN 0
  ELSE IF by_new_tracking_number(rows, tracking_number) # 0
    THEN by_new_tracking_number(rows, tracking_number)
  ELSE by_original_tracking_number(rows, tracking_number)

\* The deliveries the carrier's API knows (BostaAPIService.fetch_order_data succeeds
\* on them and returns the delivery with that tracking number).
BostaDeliveries == {"TRK-1", "ORIG-1"}

\* OrderService.scan_order, with the storage working.
scan_order(db, tracking_number, force_create) ==
  LET op == "scan_order"
      sa == get_service_action_by_tracking(db.session.service_actions, tracking_number)
      pending == sa # 0 /\ db.session.service_actions[sa].status = "pending_receive"
      integration == integrate_with_maintenance_cycle(db, tracking_number, "none")
      \* the session after phase 1
      db1 == IF pending THEN integration.db ELSE db
      s == db1.session
      existing_order == get_by_tracking_number(s.orders, tracking_number)
      now == get_egypt_now(s.movements, s.history, s.sa_history)
      id == Len(s.orders) + 1
      s1 == [s EXCEPT !.orders =
               Append(@, [Order(tracking_number, "received") EXCEPT !.scanned_at = now])]
      s2 == [s1 EXCEPT !.history = Append(@, MaintenanceHistory(id, "received", now))]
  IN
  IF pending /\ integration.result.ok
    THEN [db |-> integration.db, result |-> Result(op, TRUE, integration.result.id, <<>>)]
  ELSE IF /\ sa # 0
          /\ db.session.service_actions[sa].status \notin
               {"pending_receive", "created", "confirmed"}
          /\ db.session.service_actions[sa].is_integrated_with_maintenance
          /\ db.session.service_actions[sa].maintenance_order_id # 0
    THEN [db |-> db,
          result |-> [Result(op, TRUE, db.session.service_actions[sa].maintenance_order_id,
                             <<>>) EXCEPT !.is_existing = TRUE]]
  ELSE IF existing_order # 0 /\ ~force_create
    THEN [db |-> db1,
          result |-> [Result(op, TRUE, existing_order, <<>>) EXCEPT !.is_existing = TRUE]]
  ELSE IF tracking_number \notin BostaDeliveries
    THEN [db |-> db1, result |-> Rejected(op, "bosta")]
  ELSE IF existing_order # 0
    THEN [db |-> rollback(DB(s1, db1.stored)), result |-> Rejected(op, "storage")]
  ELSE [db |-> DB(s2, s2), result |-> Result(op, TRUE, id, <<>>)]

\* ------------------------------- the service-action workflow with stock
\* ServiceActionItem.query.filter_by(service_action_id=...).all(), as the lines
\* confirm_and_send hands to StockService.send_items.
RECURSIVE service_items(_, _)
service_items(rows, service_action_id) ==
  IF rows = <<>> THEN <<>>
  ELSE LET r == rows[Len(rows)]
           rest == service_items(SubSeq(rows, 1, Len(rows) - 1), service_action_id)
       IN IF r.service_action_id = service_action_id
            THEN Append(rest, [item_type |-> r.item_type, item_id |-> r.item_id,
                               quantity |-> r.quantity_to_send])
            ELSE rest

\* The session with the rows a stock call wrote.
with_stock(s, st) ==
  [s EXCEPT !.items = st.items, !.movements = st.movements, !.sa_items = st.sa_items]

\* db.session.flush() at the end of a workflow call: a flush that raises (the
\* storage fails, or the unique index on new_tracking_number refuses the row) rolls
\* the transaction back; the call catches the exception and returns the error.
flush(db, s, op, id, lines, refused, fault) ==
  IF refused \/ fault = "flush"
    THEN [db |-> rollback(DB(s, db.stored)), result |-> Rejected(op, "storage")]
    ELSE [db |-> DB(s, db.stored), result |-> Result(op, TRUE, id, lines)]

\* UnifiedService.confirm_and_send
confirm_and_send(db, service_action_id, new_tracking_number, fault) ==
  LET s == db.session
      op == "confirm_and_send"
  IN
  IF service_action_id \notin 1..Len(s.service_actions)
    THEN [db |-> db, result |-> Rejected(op, "not_found")]
  ELSE IF s.service_actions[service_action_id].action_type
            \notin {"part_replace", "full_replace"}
    THEN [db |-> db, result |-> Rejected(op, "action_type")]
  ELSE IF new_tracking_number = "" \/ Len(new_tracking_number) < 3
    THEN [db |-> db, result |-> Rejected(op, "tracking_number")]
  ELSE IF service_items(s.sa_items, service_action_id) = <<>>
    THEN [db |-> db, result |-> Rejected(op, "items")]
  ELSE
    LET items_to_send == service_items(s.sa_items, service_action_id)
        stock == send_items(StockState(s.items, s.movements, s.sa_items),
                            s.service_actions, service_action_id, items_to_send,
                            s.history, s.sa_history)
        s1 == with_stock(s, stock.st)
        s2 == [s1 EXCEPT !.service_actions[service_action_id].status = "confirmed",
                         !.service_actions[service_action_id].new_tracking_number =
                            new_tracking_number,
                         !.sa_history =
                            Append(@, ServiceActionHistory(service_action_id,
                                                           "confirm_and_send", "confirmed"))]
    IN IF ~stock.ok
         THEN [db |-> DB(s1, db.stored), result |-> Rejected(op, "stock")]
         ELSE flush(db, s2, op, service_action_id, items_to_send,
                    new_tracking_taken(s.service_actions, service_action_id,
                                       new_tracking_number),
                    fault)

\* confirm_return without the check of the action's kind.
confirm_return_any_kind(db, service_action_id, new_tracking_number, fault) ==
  LET s == db.session
      op == "confirm_return"
  IN
  IF service_action_id \notin 1..Len(s.service_actions)
    THEN [db |-> db, result |-> Rejected(op, "not_found")]
  ELSE IF new_tracking_number = "" \/ Len(new_tracking_number) < 3
    THEN [db |-> db, result |-> Rejected(op, "tracking_number")]
  ELSE
    LET s1 == [s EXCEPT !.service_actions[service_action_id].status = "confirmed",
                        !.service_actions[service_action_id].new_tracking_number =
                           new_tracking_number,
                        !.sa_history =
                           Append(@, ServiceActionHistory(service_action_id,
                                                          "confirm_return", "confirmed"))]
    IN flush(db, s1, op, service_action_id, <<>>,
             new_tracking_taken(s.service_actions, service_action_id, new_tracking_number),
             fault)

\* UnifiedService.confirm_return
confirm_return(db, service_action_id, new_tracking_number, fault) ==
  LET s == db.session
      op == "confirm_return"
  IN
  IF service_action_id \notin 1..Len(s.service_actions)
    THEN [db |-> db, result |-> Rejected(op, "not_found")]
  ELSE IF s.service_actions[service_action_id].action_type # "return_from_customer"
    THEN [db |-> db, result |-> Rejected(op, "action_type")]
  ELSE IF new_tracking_number = "" \/ Len(new_tracking_number) < 3
    THEN [db |-> db, result |-> Rejected(op, "tracking_number")]
  ELSE
    LET s1 == [s EXCEPT !.service_actions[service_action_id].status = "confirmed",
                        !.service_actions[service_action_id].new_tracking_number =
                           new_tracking_number,
                        !.sa_history =
                           Append(@, ServiceActionHistory(service_action_id,
                                                          "confirm_return", "confirmed"))]
    IN flush(db, s1, op, service_action_id, <<>>,
             new_tracking_taken(s.service_actions, service_action_id, new_tracking_number),
             fault)

\* UnifiedService.receive_replacement_items
receive_replacement_items(db, service_action_id, items_received, fault) ==
  LET s == db.session
      op == "receive_replacement_items"
  IN
  IF service_action_id \notin 1..Len(s.service_actions)
    THEN [db |-> db, result |-> Rejected(op, "not_found")]
  ELSE IF s.service_actions[service_action_id].action_type
            \notin {"part_replace", "full_replace"}
    THEN [db |-> db, result |-> Rejected(op, "action_type")]
  ELSE
    LET stock == receive_items(StockState(s.items, s.movements, s.sa_items),
                               s.service_actions, service_action_id, items_received,
                               s.history, s.sa_history)
        s1 == with_stock(s, stock.st)
        s2 == [s1 EXCEPT !.service_actions[service_action_id].status = "pending_receive",
                         !.sa_history =
                            Append(@, ServiceActionHistory(service_action_id,
                                                           "receive_replacement",
                                                           "pending_receive"))]
    IN IF ~stock.ok
         THEN [db |-> DB(s1, db.stored), result |-> Rejected(op, "stock")]
         ELSE flush(db, s2, op, service_action_id, items_received, FALSE, fault)

\* UnifiedService.receive_return_items
receive_return_items(db, service_action_id, items_received, fault) ==
  LET s == db.session
      op == "receive_return_items"
  IN
  IF service_action_id \notin 1..Len(s.service_actions)
    THEN [db |-> db, result |-> Rejected(op, "not_found")]
  ELSE IF s.service_actions[service_action_id].action_type # "return_from_customer"
    THEN [db |-> db, result |-> Rejected(op, "action_type")]
  ELSE
    LET stock == receive_returns(StockState(s.items, s.movements, s.sa_items),
                                 s.service_actions, service_action_id, items_received,
                                 s.history, s.sa_history)
        s1 == with_stock(s, stock.st)
        s2 == [s1 EXCEPT !.service_actions[service_action_id].status = "pending_receive",
                         !.sa_history =
                            Append(@, ServiceActionHistory(service_action_id,
                                                           "receive_return",
                                                           "pending_receive"))]
    IN IF ~stock.ok
         THEN [db |-> DB(s1, db.stored), result |-> Rejected(op, "stock")]
         ELSE flush(db, s2, op, service_action_id, items_received, FALSE, fault)

\* action_data = sa.action_data or {}; action_data['final_status'] = ...;
\* sa.action_data = action_data.  action_data is a plain db.JSON column: when it
\* holds None or {} the assignment is a new dict and is written; when it already
\* holds a marker, the dict that was loaded is changed in place and assigned back,
\* the unit of work compares it with itself, finds no change and writes nothing.
assign_final_status(sa, final_status) ==
  IF sa.final_status = "" THEN [sa EXCEPT !.final_status = final_status] ELSE sa

\* UnifiedService.complete_service_action and fail_service_action: history.save()
\* commits the history row, sa.save() the marker.
finalize_service_action(db, op, action_id, action, final_status) ==
  LET s == db.session IN
  IF action_id \notin 1..Len(s.service_actions)
    THEN [db |-> db, result |-> Rejected(op, "not_found")]
  ELSE
    LET s1 == [s EXCEPT !.sa_history =
                 Append(@, ServiceActionHistory(action_id, action,
                                                s.service_actions[action_id].status))]
        s2 == [s1 EXCEPT !.service_actions[action_id] =
                 assign_final_status(@, final_status)]
    IN [db |-> commit(DB(s2, s1)), result |-> Result(op, TRUE, action_id, <<>>)]

complete_service_action(db, action_id) ==
  finalize_service_action(db, "complete_service_action", action_id, "complete",
                          "completed")

fail_service_action(db, action_id) ==
  finalize_service_action(db, "fail_service_action", action_id, "fail", "failed")

\* UnifiedService.process_refund_and_complete
process_refund_and_complete(db, service_action_id, fault) ==
  LET s == db.session
      op == "process_refund_and_complete"
  IN
  IF service_action_id \notin 1..Len(s.service_actions)
    THEN [db |-> db, result |-> Rejected(op, "not_found")]
  ELSE IF s.service_actions[service_action_id].action_type # "return_from_customer"
    THEN [db |-> db, result |-> Rejected(op, "action_type")]
  ELSE IF s.service_actions[service_action_id].refund_amount <= 0
    THEN [db |-> db, result |-> Rejected(op, "refund_amount")]
  ELSE
    LET s1 == [s EXCEPT !.service_actions[service_action_id] =
                           assign_final_status([@ EXCEPT !.refund_processed = TRUE],
                                               "completed"),
                        !.sa_history =
                           Append(@, ServiceActionHistory(service_action_id,
                                                          "process_refund_complete",
                                                          "pending_receive"))]
    IN flush(db, s1, op, service_action_id, <<>>, FALSE, fault)

\* ------------------------------------------------------- the stock fixture
\* The stock service on its own: a part with stock, an order in maintenance and a
\* service action, all committed (the rows the stock calls refer to by id).
InitStock ==
  /\ items \in [ExistingItems -> InitStocks]
  /\ movements = <<>>
  /\ sa_items = <<>>
  /\ service_actions = <<ServiceAction("part_replace", "ORIG-1", 0)>>
  /\ sa_history = <<>>
  /\ orders = <<Order("ORDER-1", "in_maintenance")>>
  /\ history = <<>>
  /\ stored = Tables
  /\ result = Result("none", TRUE, 0, <<>>)
  /\ call = Call("none", 0, "", "none")
  /\ before = items
  /\ initial = items
  /\ txns = NoTransactions

NextStock == MaintenanceAdjustment \/ SendItems \/ ReceiveItems \/ ReceiveReturns

SpecStock == InitStock /\ [][NextStock]_vars

\* ------------------------------------------- concurrent stock requests
\* Here the table variables hold the rows as committed; what each request has
\* loaded and changed in its own session is in txns.
\* The stock calls two requests make at the same time: one line on the part,
\* sent, received, or adjusted during maintenance (the line of an adjustment
\* carries its quantity_change, of either sign).
ConcurrentCalls ==
  {<<"send_items", <<l>>>> : l \in GoodSendLines}
  \cup {<<"receive_items", <<l>>>> : l \in GoodReceiveLines}
  \cup {<<"maintenance_adjustment",
          <<[item_type |-> k[1], item_id |-> k[2], quantity |-> q, condition |-> c]>>>> :
          k \in ExistingItems, q \in {-1, 1}, c \in Conditions}

\* The stock call of a request, run on the rows its session holds.  The store
\* gives read-committed isolation and locks the rows a transaction has written.
stock_call(op, st, actions, service_action_id, lines, hist, sah) ==
  CASE op = "send_items" ->
         send_items(st, actions, service_action_id, lines, hist, sah)
    [] op = "receive_items" ->
         receive_items(st, actions, service_action_id, lines, hist, sah)
    [] OTHER ->
         maintenance_adjustment(st, 1, lines[1].item_type, lines[1].item_id,
                                lines[1].quantity, lines[1].condition)

\* UPDATE ... SET col = value WHERE id = ...: the unit of work writes the columns
\* whose value in the session differs from the value the session loaded, and writes
\* the session's value; the other columns keep what the database holds.
written_items(committed, read, view) ==
  [k \in DOMAIN committed |->
     [current_stock |->
        IF view[k].current_stock # read[k].current_stock
          THEN view[k].current_stock ELSE committed[k].current_stock,
      current_stock_damaged |->
        IF view[k].current_stock_damaged # read[k].current_stock_damaged
          THEN view[k].current_stock_damaged ELSE committed[k].current_stock_damaged]]

\* INSERT: the rows the session added after the ones it loaded.
inserted_rows(read, view) == SubSeq(view, Len(read) + 1, Len(view))

\* _get_item: the request's first query loads the rows as committed into its
\* session (no with_for_update, no version column).
Read(t) ==
  \E c \in ConcurrentCalls :
    /\ txns[t].pc = "idle"
    /\ txns' = [txns EXCEPT ![t] =
                  [pc |-> "read", op |-> c[1], service_action_id |-> 1, lines |-> c[2],
                   read |-> Session, view |-> Session, ok |-> FALSE]]
    /\ UNCHANGED <<items, movements, sa_items, service_actions, sa_history, orders,
                   history, stored, result, call, before, initial>>

\* The stock call checks and changes the rows of its session and flushes; the
\* UPDATE waits while another transaction holds the row (written, not committed).
\* A call that is refused writes nothing and ends the request.
Write(t) ==
  LET x == txns[t]
      r == stock_call(x.op, x.read, service_actions, x.service_action_id, x.lines,
                      history, sa_history)
  IN /\ x.pc = "read"
     /\ \A u \in Transactions \ {t} : txns[u].pc # "written"
     /\ txns' = [txns EXCEPT ![t] =
                   [x EXCEPT !.pc = IF r.ok THEN "written" ELSE "done",
                             !.view = r.st, !.ok = r.ok]]
     /\ UNCHANGED <<items, movements, sa_items, service_actions, sa_history, orders,
                    history, stored, result, call, before, initial>>

\* db.session.commit() by the caller: the writes of the transaction become the
\* committed rows.
Commit(t) ==
  LET x == txns[t]
      it == written_items(items, x.read.items, x.view.items)
  IN /\ x.pc = "written"
     /\ InRange(it)
     /\ items' = it
     /\ movements' = movements \o inserted_rows(x.read.movements, x.view.movements)
     /\ sa_items' = sa_items \o inserted_rows(x.read.sa_items, x.view.sa_items)
     /\ stored' = [stored EXCEPT !.items = items', !.movements = movements',
                                 !.sa_items = sa_items']
     /\ txns' = [txns EXCEPT ![t].pc = "done"]
     /\ result' = Result(x.op, TRUE, x.service_action_id, x.lines)
     /\ call' = Call(x.op, x.service_action_id, "", "none")
     /\ before' = items
     /\ UNCHANGED <<service_actions, sa_history, orders, history, initial>>

NextConcurrent == \E t \in Transactions : Read(t) \/ Write(t) \/ Commit(t)

SpecConcurrent == InitStock /\ [][NextConcurrent]_vars

\* ------------------------------------------------ the workflow's calls
\* The session and the committed database as the variables hold them.
Database == DB(Tables, stored)

\* The tables stay within the sizes explored.
InBounds(t) ==
  /\ Len(t.orders) <= MaxOrders
  /\ Len(t.history) <= MaxHistory
  /\ Len(t.sa_history) <= MaxSAHistory

\* The call `c` has run and left the outcome `r`.
Returns(r, c) ==
  /\ InBounds(r.db.session)
  /\ items' = r.db.session.items
  /\ movements' = r.db.session.movements
  /\ sa_items' = r.db.session.sa_items
  /\ service_actions' = r.db.session.service_actions
  /\ sa_history' = r.db.session.sa_history
  /\ orders' = r.db.session.orders
  /\ history' = r.db.session.history
  /\ stored' = r.db.stored
  /\ result' = r.result
  /\ call' = c
  /\ before' = items
  /\ UNCHANGED <<initial, txns>>

\* The tracking numbers scanned and given to the service actions: two well-formed
\* ones, the original delivery's, one too short and none.
TrackingNumbers == {"TRK-1", "TRK-2"}
ScannedNumbers == TrackingNumbers \cup {"ORIG-1"}
GivenNumbers == TrackingNumbers \cup {"ab", ""}

\* The payloads given to perform_action.
ActionDatas ==
  {ActionData(FALSE, "", 0, ""), ActionData(TRUE, "", 0, ""),
   ActionData(TRUE, "NEW-1", 50, ""), ActionData(TRUE, "ab", 0, ""),
   ActionData(TRUE, "", -5, ""), ActionData(TRUE, "", 0, "valid"),
   ActionData(TRUE, "", 0, "damaged"), ActionData(TRUE, "", 0, "broken")}

\* (action_type, original_tracking, items_to_send, refund_amount) of the creations;
\* a refund_amount of 0 also stands for one that is not given (None).
CreateCalls ==
  LET line(t, i, q) == [item_type |-> t, item_id |-> i, quantity |-> q]
  IN {<<"part_replace", "ORIG-1", <<line("part", 1, 1)>>, 0>>,
      <<"full_replace", "ORIG-1", <<>>, 0>>,
      <<"part_replace", "ORIG-1", <<>>, 0>>,
      <<"part_replace", "ORIG-1", <<line("part", 2, 1)>>, 0>>,
      <<"part_replace", "ORIG-1", <<line("gift", 1, 1)>>, 0>>,
      <<"part_replace", "", <<line("part", 1, 1)>>, 0>>,
      <<"part_replace", "ORIG-1", <<line("part", 1, 0)>>, 0>>,
      <<"return_from_customer", "ORIG-1", <<>>, 100>>,
      <<"return_from_customer", "ORIG-1", <<>>, 0>>,
      <<"return_from_customer", "ORIG-1", <<>>, -5>>}

ScanOrder ==
  \E tracking_number \in ScannedNumbers, force_create \in BOOLEAN :
    Returns(scan_order(Database, tracking_number, force_create),
            Call("scan_order", 0, tracking_number, "none"))

PerformAction ==
  \E order_id \in 1..(Len(orders) + 1), action \in MaintenanceAction,
     action_data \in ActionDatas, fault \in {"none", "order_save"} :
    Returns(perform_action(Database, order_id, action, action_data, fault),
            Call("perform_action", order_id, "", fault))

CreateServiceAction ==
  \E a \in CreateCalls :
    LET r == create_service_action(Database, a[1], a[2], a[3], a[4])
    IN /\ Len(r.db.session.service_actions) <= MaxActions
       /\ Returns(r, Call("create_service_action", 0, a[2], "none"))

ConfirmServiceAction ==
  \E action_id \in 1..(Len(service_actions) + 1), new_tracking_number \in GivenNumbers :
    Returns(confirm_service_action(Database, action_id, new_tracking_number),
            Call("confirm_service_action", action_id, new_tracking_number, "none"))

MoveToPendingReceive ==
  \E action_id \in 1..(Len(service_actions) + 1) :
    Returns(move_to_pending_receive(Database, action_id),
            Call("move_to_pending_receive", action_id, "", "none"))

IntegrateWithMaintenanceCycle ==
  \E tracking_number \in GivenNumbers,
     fault \in {"none", "order_save", "history_save", "sa_save"} :
    Returns(integrate_with_maintenance_cycle(Database, tracking_number, fault),
            Call("integrate_with_maintenance_cycle", 0, tracking_number, fault))

\* The hub as deployed: a catalogue with one stocked part, no order and no service
\* action yet.
Init ==
  /\ items = [k \in ExistingItems |->
                [current_stock |-> MaxInitStock, current_stock_damaged |-> 0]]
  /\ movements = <<>>
  /\ sa_items = <<>>
  /\ service_actions = <<>>
  /\ sa_history = <<>>
  /\ orders = <<>>
  /\ history = <<>>
  /\ stored = Tables
  /\ result = Result("none", TRUE, 0, <<>>)
  /\ call = Call("none", 0, "", "none")
  /\ before = items
  /\ initial = items
  /\ txns = NoTransactions

\* The service-action workflow up to its integration with the maintenance cycle.
NextService ==
  \/ CreateServiceAction
  \/ ConfirmServiceAction
  \/ MoveToPendingReceive
  \/ IntegrateWithMaintenanceCycle
  \/ ScanOrder

SpecService == Init /\ [][NextService]_vars

\* The tracking numbers in use: two service actions that create_service_action has
\* committed, a return from the customer and a full replacement, wait for their
\* follow-up numbers while parcels are scanned.
InitTracking ==
  /\ items = [k \in ExistingItems |->
                [current_stock |-> MaxInitStock, current_stock_damaged |-> 0]]
  /\ movements = <<>>
  /\ sa_items = <<>>
  /\ service_actions = <<ServiceAction("return_from_customer", "ORIG-1", 100),
                         ServiceAction("full_replace", "ORIG-1", 0)>>
  /\ sa_history = <<>>
  /\ orders = <<>>
  /\ history = <<>>
  /\ stored = Tables
  /\ result = Result("none", TRUE, 0, <<>>)
  /\ call = Call("none", 0, "", "none")
  /\ before = items
  /\ initial = items
  /\ txns = NoTransactions

NextTracking ==
  \/ ConfirmServiceAction
  \/ MoveToPendingReceive
  \/ IntegrateWithMaintenanceCycle
  \/ ScanOrder

SpecTracking == InitTracking /\ [][NextTracking]_vars

\* ------------------------------------------------------- the catalogue
\* The payload of an update as far as stock goes: given is FALSE when it has no
\* 'current_stock' key (for a part also when the key holds None).
StockPayloads ==
  {[given |-> FALSE, current_stock |-> 0]}
  \cup {[given |-> TRUE, current_stock |-> n] : n \in 0..MaxStock}

\* ProductService.update_product and update_part as far as stock goes: the row is
\* looked up, payload['current_stock'] is assigned to current_stock, and save()
\* commits.  No StockMovement is built.
update_item(db, op, item_type, item_id, payload) ==
  LET s == db.session
      key == <<item_type, item_id>>
  IN
  IF ~HasItem(s.items, item_type, item_id)
    THEN [db |-> db, result |-> Rejected(op, "not_found")]
  ELSE
    LET s1 == IF payload.given
                THEN [s EXCEPT !.items[key].current_stock = payload.current_stock]
                ELSE s
    IN [db |-> DB(s1, s1), result |-> Result(op, TRUE, item_id, <<>>)]

update_product(db, product_id, payload) ==
  update_item(db, "update_product", "product", product_id, payload)

update_part(db, part_id, payload) ==
  update_item(db, "update_part", "part", part_id, payload)

UpdateProduct ==
  \E product_id \in 1..2, payload \in StockPayloads :
    Returns(update_product(Database, product_id, payload),
            Call("update_product", product_id, "", "none"))

UpdatePart ==
  \E part_id \in 1..2, payload \in StockPayloads :
    Returns(update_part(Database, part_id, payload),
            Call("update_part", part_id, "", "none"))

\* The stock of the catalogue: parcels are sent and received, and the catalogue
\* rows are edited.
NextCatalogue == SendItems \/ ReceiveItems \/ UpdateProduct \/ UpdatePart

SpecCatalogue == InitStock /\ [][NextCatalogue]_vars

\* The maintenance cycle on its own: one order, as scan_order left it after the
\* first scan of TRK-1, or as the scan of TRK-2 left it after integrating the service
\* action that waited under that number.
ScannedOrder(now) == [Order("TRK-1", "received") EXCEPT !.scanned_at = now]

IntegratedOrder(now) ==
  [Order("TRK-2", "received") EXCEPT
     !.is_service_action_order = TRUE, !.service_action_id = 1,
     !.scanned_at = now, !.received_at = now]

InitOrder ==
  /\ items = [k \in ExistingItems |->
                [current_stock |-> MaxInitStock, current_stock_damaged |-> 0]]
  /\ movements = <<>>
  /\ sa_items = <<>>
  /\ sa_history =
       <<ServiceActionHistory(1, "status_change", "confirmed"),
         ServiceActionHistory(1, "status_change", "pending_receive")>>
  /\ \/ /\ orders = <<ScannedOrder(3)>>
        /\ history = <<MaintenanceHistory(1, "received", 3)>>
        /\ service_actions =
             <<[ServiceAction("return_from_customer", "ORIG-1", 100) EXCEPT
                  !.status = "pending_receive", !.new_tracking_number = "TRK-2"]>>
     \/ /\ orders = <<IntegratedOrder(3)>>
        /\ history = <<[MaintenanceHistory(1, "received", 3) EXCEPT
                          !.service_action_id = 1]>>
        /\ service_actions =
             <<[ServiceAction("return_from_customer", "ORIG-1", 100) EXCEPT
                  !.status = "pending_receive", !.new_tracking_number = "TRK-2",
                  !.is_integrated_with_maintenance = TRUE,
                  !.maintenance_order_id = 1, !.integrated_at = 3]>>
  /\ stored = Tables
  /\ result = Result("none", TRUE, 0, <<>>)
  /\ call = Call("none", 0, "", "none")
  /\ before = items
  /\ initial = items
  /\ txns = NoTransactions

NextOrder == PerformAction

SpecOrder == InitOrder /\ [][NextOrder]_vars

\* perform_action while the storage fails: the commit of history.save() raises.
\* The failure strikes while the order's history is still short.
PerformActionHistoryFault ==
  \E order_id \in 1..Len(orders), action \in MaintenanceAction,
     action_data \in {ActionData(FALSE, "", 0, ""), ActionData(TRUE, "", 0, "valid")} :
    /\ Len(history) <= MaxFaultHistory
    /\ Returns(perform_action(Database, order_id, action, action_data, "history_save"),
               Call("perform_action", order_id, "", "history_save"))

\* The maintenance cycle on a storage that may fail between the two writes.
NextOrderFault == PerformAction \/ PerformActionHistoryFault

SpecOrderFault == InitOrder /\ [][NextOrderFault]_vars

\* The lines given to the workflow's receive calls: one unit of the part, valid or
\* damaged, and one unit of a part that does not exist.
FlowGoodLines == {l \in GoodReceiveLines : l.quantity = 1}
FlowLines ==
  FlowGoodLines
  \cup {[item_type |-> "part", item_id |-> 2, quantity |-> 1, condition |-> "valid"]}

\* The follow-up tracking numbers given to the workflow's confirmations.
FlowNumbers == {"TRK-1", "ab", ""}

\* The call has run within the sizes explored for the ledger and the counters.
FlowReturns(r, c) ==
  /\ Len(r.db.session.movements) <= MaxFlowMovements
  /\ \A k \in DOMAIN r.db.session.items :
       r.db.session.items[k].current_stock <= MaxFlowStock
  /\ Returns(r, c)

ConfirmAndSend ==
  \E service_action_id \in 1..(Len(service_actions) + 1),
     new_tracking_number \in FlowNumbers, fault \in {"none", "flush"} :
    FlowReturns(confirm_and_send(Database, service_action_id, new_tracking_number, fault),
                Call("confirm_and_send", service_action_id, new_tracking_number, fault))

ConfirmReturn ==
  \E service_action_id \in 1..(Len(service_actions) + 1),
     new_tracking_number \in FlowNumbers, fault \in {"none", "flush"} :
    FlowReturns(confirm_return(Database, service_action_id, new_tracking_number, fault),
                Call("confirm_return", service_action_id, new_tracking_number, fault))

ReceiveReplacementItems ==
  \E service_action_id \in 1..(Len(service_actions) + 1),
     items_received \in Batches(FlowGoodLines, FlowLines), fault \in {"none", "flush"} :
    FlowReturns(receive_replacement_items(Database, service_action_id, items_received,
                                          fault),
                Call("receive_replacement_items", service_action_id, "", fault))

ReceiveReturnItems ==
  \E service_action_id \in 1..(Len(service_actions) + 1),
     items_received \in Batches(FlowGoodLines, FlowLines), fault \in {"none", "flush"} :
    FlowReturns(receive_return_items(Database, service_action_id, items_received, fault),
                Call("receive_return_items", service_action_id, "", fault))

ProcessRefundAndComplete ==
  \E service_action_id \in 1..(Len(service_actions) + 1), fault \in {"none", "flush"} :
    FlowReturns(process_refund_and_complete(Database, service_action_id, fault),
                Call("process_refund_and_complete", service_action_id, "", fault))

\* The workflow on one service action that create_service_action has just committed:
\* a part replacement of one line, one of two lines on the same part, or a return
\* from the customer.
InitFlow ==
  /\ items = [k \in ExistingItems |->
                [current_stock |-> MaxInitStock, current_stock_damaged |-> 0]]
  /\ movements = <<>>
  /\ \/ /\ service_actions = <<ServiceAction("part_replace", "ORIG-1", 0)>>
        /\ \E n \in 1..2 :
             sa_items = [i \in 1..n |->
                           [ServiceActionItem(1, "part", 1) EXCEPT
                              !.quantity_to_send = IF i = 1 THEN 1 ELSE MaxQty]]
     \/ /\ service_actions = <<ServiceAction("return_from_customer", "ORIG-1", 100)>>
        /\ sa_items = <<>>
  /\ sa_history = <<>>
  /\ orders = <<>>
  /\ history = <<>>
  /\ stored = Tables
  /\ result = Result("none", TRUE, 0, <<>>)
  /\ call = Call("none", 0, "", "none")
  /\ before = items
  /\ initial = items
  /\ txns = NoTransactions

NextFlow ==
  \/ ConfirmAndSend
  \/ ConfirmReturn
  \/ ReceiveReplacementItems
  \/ ReceiveReturnItems
  \/ ProcessRefundAndComplete
  \/ MoveToPendingReceive

SpecFlow == InitFlow /\ [][NextFlow]_vars

CompleteServiceAction ==
  \E action_id \in 1..(Len(service_actions) + 1) :
    Returns(complete_service_action(Database, action_id),
            Call("complete_service_action", action_id, "", "none"))

FailServiceAction ==
  \E action_id \in 1..(Len(service_actions) + 1) :
    Returns(fail_service_action(Database, action_id),
            Call("fail_service_action", action_id, "", "none"))

\* The end of a service action: the parcel is received and the action is closed,
\* failed or refunded.
NextFinal ==
  \/ ReceiveReplacementItems
  \/ ReceiveReturnItems
  \/ ProcessRefundAndComplete
  \/ CompleteServiceAction
  \/ FailServiceAction

SpecFinal == InitFlow /\ [][NextFinal]_vars

\* ------------------------------------------------------ the stock claims
\* The quantity_change of the ledger rows of one item, summed.
RECURSIVE LedgerSum(_, _)
LedgerSum(rows, key) ==
  IF rows = <<>> THEN 0
  ELSE LET r == rows[Len(rows)]
       IN LedgerSum(SubSeq(rows, 1, Len(rows) - 1), key)
          + (IF <<r.item_type, r.item_id>> = key THEN r.quantity_change ELSE 0)

\* The quantities of the lines of a call that are on one item, summed.
RECURSIVE LinesSum(_, _)
LinesSum(lines, key) ==
  IF lines = <<>> THEN 0
  ELSE LET l == lines[Len(lines)]
       IN LinesSum(SubSeq(lines, 1, Len(lines) - 1), key)
          + (IF <<l.item_type, l.item_id>> = key THEN l.quantity ELSE 0)

BatchedOps == {"send_items", "receive_items", "receive_returns"}

\* C1: after any sequence of maintenance_adjustment, send_items, receive_items and
\* receive_returns calls, accepted or rejected, every Product/Part has
\* 0 <= current_stock_damaged <= current_stock.
C1_CountersConsistent ==
  \A k \in DOMAIN items :
    /\ 0 <= items[k].current_stock_damaged
    /\ items[k].current_stock_damaged <= items[k].current_stock

\* C6: reconciliation: after any sequence of stock calls, accepted or rejected, an
\* item's current_stock is its initial current_stock plus the sum of quantity_change
\* over the ledger rows recorded for it.
C6_Reconciliation ==
  \A k \in DOMAIN items :
    items[k].current_stock = initial[k].current_stock + LedgerSum(movements, k)

\* C7: send_items, receive_items and receive_returns are all-or-nothing: a call that
\* is rejected has changed no counter, appended no ledger row and updated no
\* Service-Action Item, also when an earlier line of the call was acceptable.
C7_AllOrNothing ==
  [][(result'.op \in BatchedOps /\ ~result'.ok)
       => UNCHANGED <<items, movements, sa_items>>]_vars

\* C8: only valid stock is sent: a send_items call succeeds only if each item's valid
\* stock covers the quantities of its lines; it then lowers current_stock by exactly
\* those quantities, leaves current_stock_damaged alone, appends one SEND row of
\* -quantity/valid per line, and leaves valid stock non-negative.
C8_SendOnlyValidStock ==
  [][(result'.op = "send_items" /\ result'.ok)
       => LET lines == result'.lines
              n == Len(movements)
          IN /\ \A k \in DOMAIN items :
                  /\ get_valid_stock(items[k]) >= LinesSum(lines, k)
                  /\ items'[k].current_stock = items[k].current_stock - LinesSum(lines, k)
                  /\ items'[k].current_stock_damaged = items[k].current_stock_damaged
                  /\ get_valid_stock(items'[k]) >= 0
             /\ Len(movements') = n + Len(lines)
             /\ SubSeq(movements', 1, n) = movements
             /\ \A i \in 1..Len(lines) :
                  movements'[n + i] =
                    StockMovement(lines[i].item_type, lines[i].item_id, -lines[i].quantity,
                                  "send", "valid", 0, result'.id)]_vars

\* A send of two lines has succeeded.
C8_Witness ==
  /\ result.op = "send_items" /\ result.ok /\ Len(result.lines) = 2
  /\ \E k \in DOMAIN items : items[k].current_stock < initial[k].current_stock

\* C9: round trip: a send of N valid units of an item followed by a receive of N
\* damaged units of it leaves current_stock as it was before the send and
\* current_stock_damaged N higher, with one SEND row of -N/valid and one RECEIVE row
\* of +N/damaged in the ledger.
C9_RoundTrip ==
  [][(/\ result.op = "send_items" /\ result.ok /\ Len(result.lines) = 1
      /\ result'.op = "receive_items" /\ result'.ok /\ Len(result'.lines) = 1
      /\ result'.lines[1].item_type = result.lines[1].item_type
      /\ result'.lines[1].item_id = result.lines[1].item_id
      /\ result'.lines[1].quantity = result.lines[1].quantity
      /\ result'.lines[1].condition = "damaged")
       => LET l == result.lines[1]
              k == <<l.item_type, l.item_id>>
              n == Len(movements')
          IN /\ items'[k].current_stock = before[k].current_stock
             /\ items'[k].current_stock_damaged = before[k].current_stock_damaged + l.quantity
             /\ n >= 2
             /\ movements'[n - 1] = StockMovement(l.item_type, l.item_id, -l.quantity,
                                                  "send", "valid", 0, result.id)
             /\ movements'[n] = StockMovement(l.item_type, l.item_id, l.quantity,
                                              "receive", "damaged", 0, result'.id)]_vars

\* A receive of N damaged units has followed a send of N valid units, N > 1.
C9_Witness ==
  /\ result.op = "receive_items" /\ result.ok /\ Len(result.lines) = 1
  /\ result.lines[1].condition = "damaged" /\ result.lines[1].quantity = MaxQty
  /\ Len(movements) = 2
  /\ movements[1].movement_type = "send"
  /\ movements[1].quantity_change = -MaxQty
  /\ movements[2].movement_type = "receive"

\* ------------------------------------------------------ the order claims
\* The status pairs the transition table allows.
AllowedPairs ==
  {<<"received", "in_maintenance">>, <<"received", "returned">>,
   <<"in_maintenance", "completed">>, <<"in_maintenance", "failed">>,
   <<"completed", "sending">>,
   <<"failed", "in_maintenance">>, <<"failed", "sending">>,
   <<"failed", "returned">>, <<"failed", "completed">>}

\* The statuses the transition table accepts each named action from.
ValidFrom ==
  [a \in MaintenanceAction \ {"received", "set_return_condition"} |->
     CASE a = "start_maintenance" -> {"received"}
       [] a \in {"complete_maintenance", "fail_maintenance"} -> {"in_maintenance"}
       [] a = "reschedule" -> {"failed"}
       [] a \in {"send_order", "confirm_send"} -> {"completed", "failed"}
       [] a \in {"return_order", "move_to_returns"} -> {"received", "failed"}
       [] a = "refund_or_replace" -> {"failed"}]

\* The step is a perform_action call that was accepted; its history row is the last.
Performed ==
  /\ result'.op = "perform_action" /\ result'.ok
  /\ Len(history') = Len(history) + 1

\* C2: every change of an order's status follows the allowed pairs; an accepted
\* status-changing action moves the order to the action's target status, which is in
\* the allowed set of the status it had; the status is always one of the six.
C2_TransitionsAllowed ==
  /\ [](\A i \in 1..Len(orders) : orders[i].status \in OrderStatus)
  /\ [][/\ \A i \in 1..Len(orders) :
             orders'[i].status # orders[i].status
               => <<orders[i].status, orders'[i].status>> \in AllowedPairs
        /\ (Performed /\ history'[Len(history')].action # "set_return_condition")
             => LET h == history'[Len(history')]
                IN /\ orders'[h.order_id].status = ACTION_STATUS_MAP[h.action]
                   /\ <<orders[h.order_id].status, ACTION_STATUS_MAP[h.action]>>
                        \in AllowedPairs]_vars

\* An action was refused for its transition on an order that failed maintenance and
\* was then completed by a refund or replacement.
C2_Witness ==
  /\ result.op = "perform_action" /\ ~result.ok /\ result.err = "transition"
  /\ \E i \in 1..Len(orders) :
       orders[i].status = "completed" /\ orders[i].maintenance_failed_at # 0

\* C3: perform_action accepts each named action only from the statuses the table
\* gives as 'valid from' for that action.
C3_ValidFrom ==
  [][(Performed /\ history'[Len(history')].action \in DOMAIN ValidFrom)
       => LET h == history'[Len(history')]
          IN orders[h.order_id].status \in ValidFrom[h.action]]_vars

\* C4: a perform_action call rejected for its transition or its payload leaves the
\* order's status, timestamps and payload-carried fields and the history unchanged.
C4_RejectionNoSideEffects ==
  [][(/\ result'.op = "perform_action" /\ ~result'.ok
      /\ result'.err \in {"transition", "validation"})
       => /\ UNCHANGED <<orders, history>>
          /\ stored'.orders = stored.orders
          /\ stored'.history = stored.history]_vars

\* A payload was refused on an order that had gone into maintenance and failed.
C4_Witness ==
  /\ result.op = "perform_action" /\ ~result.ok /\ result.err = "validation"
  /\ \E i \in 1..Len(orders) : orders[i].status = "failed"
  /\ Len(history) >= 3

\* C5: return_condition is unset on every order whose status is not RETURNED.
C5_ReturnConditionOnlyReturned ==
  \A i \in 1..Len(orders) :
    orders[i].status # "returned" => orders[i].return_condition = "none"

\* A returned order was classified by set_return_condition.
C5_Witness ==
  /\ result.op = "perform_action" /\ result.ok
  /\ history[Len(history)].action = "set_return_condition"
  /\ orders[result.id].status = "returned"
  /\ orders[result.id].return_condition = "damaged"

\* ------------------------------------------------ the integration claims
\* The orders with a tracking number, and the initial history rows of an order.
OrdersOf(rows, tracking_number) ==
  {i \in 1..Len(rows) : rows[i].tracking_number = tracking_number}

ReceivedRows(rows, order_id) ==
  {i \in 1..Len(rows) : rows[i].order_id = order_id /\ rows[i].action = "received"}

\* C10: integration is idempotent: integrate_with_maintenance_cycle called with the
\* follow-up tracking number of an action that is already integrated returns success
\* with the id of the order it is linked to, and there is then exactly one order
\* with that tracking number, with exactly one initial 'received' history row.
C10_IntegrateIdempotent ==
  [][\A sa \in 1..Len(service_actions) :
       (/\ call'.op = "integrate_with_maintenance_cycle"
        /\ call'.fault = "none"
        /\ call'.tracking_number = service_actions[sa].new_tracking_number
        /\ service_actions[sa].is_integrated_with_maintenance)
         => /\ result'.ok
            /\ result'.id = service_actions[sa].maintenance_order_id
            /\ OrdersOf(orders', call'.tracking_number) = {result'.id}
            /\ Cardinality(ReceivedRows(history', result'.id)) = 1]_vars

\* C11: integrate_with_maintenance_cycle returns an error, creates no order and no
\* history row and flags no action integrated, when no service action has the given
\* follow-up tracking number or when the one that has it is not PENDING_RECEIVE.
C11_IntegrateNeedsPendingAction ==
  [][(/\ call'.op = "integrate_with_maintenance_cycle"
      /\ LET sa == by_new_tracking_number(service_actions, call'.tracking_number)
         IN \/ call'.tracking_number = ""
            \/ sa = 0
            \/ service_actions[sa].status # "pending_receive")
       => /\ ~result'.ok
          /\ UNCHANGED <<orders, history, service_actions>>
          /\ stored' = stored]_vars

\* The integration was refused for an action that is confirmed only.
C11_Witness ==
  /\ result.op = "integrate_with_maintenance_cycle" /\ ~result.ok
  /\ result.err = "not_pending"
  /\ \E sa \in 1..Len(service_actions) :
       /\ service_actions[sa].new_tracking_number = call.tracking_number
       /\ service_actions[sa].status = "confirmed"
  /\ orders = <<>> /\ history = <<>>

\* C12: integration is one transaction: in every reachable state an order with
\* service_action_id = a exists if and only if service action a is flagged integrated
\* with that order's id as maintenance_order_id, and that order has its initial
\* 'received' history row naming a.
C12_IntegrationOneTransaction ==
  /\ \A o \in 1..Len(orders) :
       orders[o].service_action_id # 0
         => LET a == orders[o].service_action_id
            IN /\ a \in 1..Len(service_actions)
               /\ service_actions[a].is_integrated_with_maintenance
               /\ service_actions[a].maintenance_order_id = o
               /\ \E h \in 1..Len(history) :
                    /\ history[h].order_id = o
                    /\ history[h].action = "received"
                    /\ history[h].service_action_id = a
  /\ \A a \in 1..Len(service_actions) :
       service_actions[a].is_integrated_with_maintenance
         => LET o == service_actions[a].maintenance_order_id
            IN o \in 1..Len(orders) /\ orders[o].service_action_id = a

\* C13: a perform_action applies the order's update and its history row as one
\* atomic unit: in every step, also one in which the storage fails between the two
\* writes, an order row is changed only together with one new history row for that
\* order, and a history row is added only by a call that succeeds in full.
C13_PerformActionAtomic ==
  [][call'.op = "perform_action"
       => /\ orders' # orders
               => /\ Len(history') = Len(history) + 1
                  /\ history'[Len(history')].order_id = call'.id
          /\ stored'.orders # stored.orders
               => Len(stored'.history) = Len(stored.history) + 1
          /\ history' # history => result'.ok]_vars

\* C14: a rejected single stock movement (maintenance_adjustment) leaves the item's
\* counters and the ledger exactly as they were before the call.
C14_RejectedMovementNoChange ==
  [][(result'.op = "maintenance_adjustment" /\ ~result'.ok)
       => UNCHANGED <<items, movements>>]_vars

\* C15: maintenance_adjustment rejects quantity_change = 0, an item_type other than
\* product/part and a condition other than valid/damaged, and send_items and
\* receive_items reject an empty list, a line with quantity <= 0 and an unknown
\* item_type or condition, in each case without changing a counter, the ledger or
\* a service-action item.
C15_InvalidInputsRejected ==
  /\ \A a \in MaintenanceCalls(Len(orders)) :
       (a[4] = 0 \/ a[2] \notin {"product", "part"} \/ a[5] \notin {"valid", "damaged"})
         => LET r == maintenance_adjustment(Session, a[1], a[2], a[3], a[4], a[5])
            IN ~r.ok /\ r.st = Session
  /\ \A a \in BatchCalls(Len(service_actions), GoodSendLines, SendLines) :
       (\/ a[2] = <<>>
        \/ \E i \in 1..Len(a[2]) :
             a[2][i].quantity <= 0 \/ a[2][i].item_type \notin {"product", "part"})
         => LET r == send_items(Session, service_actions, a[1], a[2], history, sa_history)
            IN ~r.ok /\ r.st = Session
  /\ \A a \in BatchCalls(Len(service_actions), GoodReceiveLines, ReceiveLines) :
       (\/ a[2] = <<>>
        \/ \E i \in 1..Len(a[2]) :
             \/ a[2][i].quantity <= 0
             \/ a[2][i].item_type \notin {"product", "part"}
             \/ a[2][i].condition \notin {"valid", "damaged"})
         => LET r == receive_items(Session, service_actions, a[1], a[2], history, sa_history)
            IN ~r.ok /\ r.st = Session
  /\ (result.op \in {"maintenance_adjustment", "send_items", "receive_items"}
        /\ result.err = "validation")
       => items = before

\* A send was refused for its input after stock had moved.
C15_Witness ==
  /\ result.op = "send_items" /\ ~result.ok /\ result.err = "validation"
  /\ movements # <<>>
  /\ \E k \in DOMAIN items : items[k] # initial[k]

\* C16: a service action's status only advances along CREATED -> CONFIRMED ->
\* PENDING_RECEIVE: it becomes CONFIRMED only from CREATED and PENDING_RECEIVE only
\* from CONFIRMED, and nothing moves it back to CONFIRMED or to CREATED.
C16_StatusOnlyAdvances ==
  [][\A a \in 1..Len(service_actions) :
       service_actions'[a].status # service_actions[a].status
         => /\ service_actions'[a].status = "confirmed"
                 => service_actions[a].status = "created"
            /\ service_actions'[a].status = "pending_receive"
                 => service_actions[a].status = "confirmed"
            /\ service_actions'[a].status # "created"]_vars

\* C17: the workflow operations are guarded by action kind: confirm_and_send and
\* receive_replacement_items are refused on a return_from_customer action, and
\* confirm_return, receive_return_items and process_refund_and_complete on a
\* part_replace/full_replace action; the refused call changes no status, tracking
\* number, stock counter, ledger row or history row.
C17_GuardedByKind ==
  [][\A a \in 1..Len(service_actions) :
       (/\ call'.id = a
        /\ \/ /\ call'.op \in {"confirm_and_send", "receive_replacement_items"}
              /\ service_actions[a].action_type = "return_from_customer"
           \/ /\ call'.op \in {"confirm_return", "receive_return_items",
                                "process_refund_and_complete"}
              /\ service_actions[a].action_type \in {"part_replace", "full_replace"})
         => /\ ~result'.ok
            /\ UNCHANGED <<items, movements, sa_items, service_actions, sa_history>>
            /\ stored' = stored]_vars

\* A replacement that was sent and confirmed was then refused confirm_return, with
\* a well-formed tracking number.
C17_Witness ==
  /\ result.op = "confirm_return" /\ ~result.ok /\ result.err = "action_type"
  /\ call.tracking_number = "TRK-1"
  /\ service_actions[call.id].action_type = "part_replace"
  /\ service_actions[call.id].status = "confirmed"
  /\ movements # <<>>

\* C20: confirm_and_send is all-or-nothing across ledger and entity: a call that
\* fails leaves no change of an item counter, a ledger row, an item's sent stamp,
\* the action's status or tracking number, or the history.
C20_ConfirmAndSendAllOrNothing ==
  [][(call'.op = "confirm_and_send" /\ ~result'.ok)
       => UNCHANGED <<items, movements, sa_items, service_actions, sa_history>>]_vars

\* C18: create_service_action for a return_from_customer is rejected, and creates
\* no service-action row, whenever the refund amount is missing, zero or negative;
\* when it succeeds the stored refund amount is positive and the status is CREATED.
C18_ReturnNeedsPositiveRefund ==
  /\ [](\A a \in CreateCalls :
          (a[1] = "return_from_customer" /\ a[4] <= 0)
            => LET r == create_service_action(Database, a[1], a[2], a[3], a[4])
               IN ~r.result.ok /\ r.db = Database)
  /\ [][(/\ result'.op = "create_service_action"
         /\ Len(service_actions') > Len(service_actions)
         /\ service_actions'[Len(service_actions')].action_type = "return_from_customer")
          => /\ result'.ok
             /\ result'.id = Len(service_actions')
             /\ Len(service_actions') = Len(service_actions) + 1
             /\ service_actions'[result'.id].refund_amount > 0
             /\ service_actions'[result'.id].status = "created"
             /\ stored'.service_actions = service_actions']_vars

\* A return without a positive refund amount was refused, and the only service
\* action there is was created with one.
C18_Witness ==
  /\ result.op = "create_service_action" /\ ~result.ok /\ result.err = "refund_amount"
  /\ Len(service_actions) = 1
  /\ service_actions[1].action_type = "return_from_customer"
  /\ service_actions[1].refund_amount > 0

\* C19: create_service_action for part_replace or full_replace succeeds only if at
\* least one line is given and every line names an existing product/part with
\* quantity > 0; otherwise it is rejected and creates neither a service-action row
\* nor a service-action item row.
C19_ReplaceNeedsValidLines ==
  [][result'.op = "create_service_action"
       => IF result'.ok
            THEN service_actions'[result'.id].action_type \in {"part_replace", "full_replace"}
                   => LET lines == service_items(sa_items', result'.id)
                      IN /\ lines # <<>>
                         /\ \A i \in 1..Len(lines) :
                              item_exists(items, lines[i]) /\ lines[i].quantity > 0
            ELSE /\ UNCHANGED <<service_actions, sa_items>>
                 /\ stored'.service_actions = stored.service_actions
                 /\ stored'.sa_items = stored.sa_items]_vars

\* ------------------------------------------- the maintenance-cycle claims
\* What perform_action would return in the present state when the storage works.
Outcome(order_id, action, action_data) ==
  perform_action(Database, order_id, action, action_data, "none")

\* The MaintenanceHistory rows of one order, in insertion order.
RowsOf(rows, order_id) == SelectSeq(rows, LAMBDA h : h.order_id = order_id)

\* C24: SENDING and RETURNED are terminal: no step changes the status of an order
\* that is in one of them; set_return_condition is accepted only on a RETURNED
\* order and leaves its status RETURNED.
C24_TerminalStatuses ==
  [][/\ \A i \in 1..Len(orders) :
          orders[i].status \in {"sending", "returned"}
            => /\ i \in 1..Len(orders')
               /\ orders'[i].status = orders[i].status
     /\ (Performed /\ history'[Len(history')].action = "set_return_condition")
          => LET h == history'[Len(history')]
             IN /\ orders[h.order_id].status = "returned"
                /\ orders'[h.order_id].status = "returned"]_vars

\* An order that was sent out refused a further action for its transition.
C24_Witness ==
  /\ result.op = "perform_action" /\ ~result.ok /\ result.err = "transition"
  /\ \E i \in 1..Len(orders) : orders[i].status = "sending" /\ orders[i].sent_at # 0

\* C25: every order starts with one history row; an accepted perform_action
\* (set_return_condition included) appends exactly one row, for that order and with
\* that action, and a rejected one appends none, so an order's rows number one
\* plus its accepted actions.
C25_OneHistoryRowPerAction ==
  /\ \A i \in 1..Len(orders) : Len(RowsOf(history, i)) = 1
  /\ [](\A order_id \in 1..Len(orders), action \in MaintenanceAction,
           action_data \in ActionDatas :
          LET r == Outcome(order_id, action, action_data)
              rows == r.db.session.history
          IN IF r.result.ok
               THEN /\ Len(rows) = Len(history) + 1
                    /\ SubSeq(rows, 1, Len(history)) = history
                    /\ rows[Len(rows)].order_id = order_id
                    /\ rows[Len(rows)].action = action
                    /\ r.db.stored.history = rows
               ELSE rows = history /\ r.db.stored.history = stored.history)
  /\ [][\A i \in 1..Len(orders) :
          Len(RowsOf(history', i)) =
            Len(RowsOf(history, i))
              + (IF result'.op = "perform_action" /\ result'.ok /\ result'.id = i
                   THEN 1 ELSE 0)]_vars

\* An order's rows number one plus its three accepted actions, the last of which
\* classified the return.
C25_Witness ==
  /\ result.op = "perform_action" /\ result.ok
  /\ Len(RowsOf(history, result.id)) = 4
  /\ history[Len(history)].action = "set_return_condition"
  /\ history[Len(history)].order_id = result.id

\* C26: confirm_send is equivalent to send_order: from the same order and payload
\* both are accepted or both refused, and when accepted they leave the same order:
\* status SENDING, sent_at set, the payload's new tracking number and COD stored.
C26_ConfirmSendLikeSendOrder ==
  \A order_id \in 1..Len(orders), action_data \in ActionDatas :
    LET a == Outcome(order_id, "send_order", action_data)
        b == Outcome(order_id, "confirm_send", action_data)
    IN /\ a.result.ok = b.result.ok
       /\ b.result.ok
            => /\ b.db.session.orders[order_id] = a.db.session.orders[order_id]
               /\ b.db.session.orders[order_id].status = "sending"
               /\ b.db.session.orders[order_id].sent_at # 0

\* C27: return_order, move_to_returns and set_return_condition are refused, with
\* the session and the database as they were, when the payload is missing or its
\* return_condition is neither valid nor damaged; when accepted, the order's
\* return_condition is the payload's.
C27_ReturnNeedsCondition ==
  \A order_id \in 1..Len(orders), action \in ReturnActions,
     action_data \in ActionDatas :
    LET r == Outcome(order_id, action, action_data)
    IN /\ (~action_data.present
              \/ action_data.return_condition \notin {"valid", "damaged"})
            => ~r.result.ok /\ r.db = Database
       /\ r.result.ok
            => r.db.session.orders[order_id].return_condition
                 = action_data.return_condition

\* An order was moved to the returns with its condition given as valid.
C27_Witness ==
  /\ result.op = "perform_action" /\ result.ok
  /\ history[Len(history)].action \in {"return_order", "move_to_returns"}
  /\ orders[result.id].status = "returned"
  /\ orders[result.id].return_condition = "valid"
  /\ orders[result.id].returned_at # 0

\* ---------------------------------------------- the tracking-number claims
\* No two rows hold the same number in the field; "" is a number not given.
Unique(rows, field) ==
  \A i, j \in 1..Len(rows) :
    (i # j /\ rows[i][field] # "") => rows[i][field] # rows[j][field]

C30_ScanIntegratesOnce ==
  \A sa \in 1..Len(service_actions) :
    LET a == service_actions[sa]
        tn == a.new_tracking_number
        first == scan_order(Database, tn, FALSE)
        id == Len(orders) + 1
        again == scan_order(first.db, tn, FALSE)
    IN (/\ a.status = "pending_receive" /\ tn # ""
        /\ ~a.is_integrated_with_maintenance
        /\ Len(orders) < MaxOrders)
         => /\ first.result.ok /\ ~first.result.is_existing /\ first.result.id = id
            /\ Len(first.db.session.orders) = Len(orders) + 1
            /\ first.db.session.orders[id].tracking_number = tn
            /\ first.db.session.orders[id].status = "received"
            /\ first.db.session.orders[id].service_action_id = sa
            /\ first.db.session.service_actions[sa].is_integrated_with_maintenance
            /\ first.db.session.service_actions[sa].maintenance_order_id = id
            /\ again.result.ok /\ again.result.is_existing /\ again.result.id = id
            /\ again.db.session.orders = first.db.session.orders
            /\ again.db.session.history = first.db.session.history

\* ------------------------------------------------------ the receive claims
ReceiveOps ==
  {"receive_items", "receive_returns", "receive_replacement_items",
   "receive_return_items"}

\* The lines of a call that came back damaged.
DamagedLines(lines) == SelectSeq(lines, LAMBDA l : l.condition = "damaged")

\* C28: an accepted receive credits each item by condition (valid: the total rises
\* by the quantity and the damaged counter stays; damaged: both rise by it) and
\* appends exactly one RECEIVE row of +quantity per line, in the order of the lines;
\* receive_replacement_items and receive_return_items then leave the action
\* PENDING_RECEIVE.
C28_ReceiveCreditsByCondition ==
  [][(result'.op \in ReceiveOps /\ result'.ok)
      => LET lines == result'.lines
             n == Len(movements)
         IN /\ \A key \in DOMAIN items :
                 /\ items'[key].current_stock
                      = items[key].current_stock + LinesSum(lines, key)
                 /\ items'[key].current_stock_damaged
                      = items[key].current_stock_damaged
                          + LinesSum(DamagedLines(lines), key)
            /\ Len(movements') = n + Len(lines)
            /\ SubSeq(movements', 1, n) = movements
            /\ \A k \in 1..Len(lines) :
                 /\ movements'[n + k].movement_type = "receive"
                 /\ movements'[n + k].quantity_change = lines[k].quantity
                 /\ movements'[n + k].item_type = lines[k].item_type
                 /\ movements'[n + k].item_id = lines[k].item_id
                 /\ movements'[n + k].condition = lines[k].condition
                 /\ movements'[n + k].service_action_id = result'.id
            /\ result'.op \in {"receive_replacement_items", "receive_return_items"}
                 => service_actions'[result'.id].status = "pending_receive"]_vars

\* A receive of two units, one valid and one damaged, was accepted by the workflow
\* and left the action waiting for the parcel.
C28_Witness ==
  /\ result.op \in {"receive_replacement_items", "receive_return_items"} /\ result.ok
  /\ Len(result.lines) = 2 /\ Len(DamagedLines(result.lines)) = 1
  /\ service_actions[result.id].status = "pending_receive"
  /\ \E key \in DOMAIN items :
       /\ items[key].current_stock = before[key].current_stock + 2
       /\ items[key].current_stock_damaged = before[key].current_stock_damaged + 1

\* ------------------------------------------------- the finalisation claims
\* The marker and the history action of each finalising operation.
FinalMarker ==
  [op \in {"process_refund_and_complete", "complete_service_action",
           "fail_service_action"} |->
     IF op = "fail_service_action" THEN "failed" ELSE "completed"]

FinalAction ==
  [op \in DOMAIN FinalMarker |->
     CASE op = "process_refund_and_complete" -> "process_refund_complete"
       [] op = "complete_service_action" -> "complete"
       [] op = "fail_service_action" -> "fail"]

\* C29: with the storage working, process_refund_and_complete,
\* complete_service_action and fail_service_action change no action's status, no
\* stock counter and no ledger row; an accepted call sets the action's marker
\* (completed or failed; the refund also sets refund_processed), changes nothing
\* else of the action and appends exactly one history entry of the action; a
\* refused call changes nothing; process_refund_and_complete is refused when the
\* action has no positive refund amount.
C29_FinalisationFrame ==
  [][(result'.op \in DOMAIN FinalMarker /\ call'.fault = "none")
      => /\ UNCHANGED <<items, movements, sa_items, orders, history>>
         /\ Len(service_actions') = Len(service_actions)
         /\ \A i \in 1..Len(service_actions) :
              /\ service_actions'[i].status = service_actions[i].status
              /\ (i # call'.id \/ ~result'.ok) => service_actions'[i] = service_actions[i]
         /\ ~result'.ok => sa_history' = sa_history
         /\ result'.ok
              => /\ service_actions'[call'.id] =
                      [service_actions[call'.id] EXCEPT
                         !.final_status = FinalMarker[result'.op],
                         !.refund_processed =
                            IF result'.op = "process_refund_and_complete" THEN TRUE ELSE @]
                 /\ Len(sa_history') = Len(sa_history) + 1
                 /\ SubSeq(sa_history', 1, Len(sa_history)) = sa_history
                 /\ sa_history'[Len(sa_history')].service_action_id = call'.id
                 /\ sa_history'[Len(sa_history')].action = FinalAction[result'.op]
         /\ (/\ result'.op = "process_refund_and_complete"
             /\ call'.id \in 1..Len(service_actions)
             /\ service_actions[call'.id].refund_amount <= 0)
              => ~result'.ok]_vars

\* ---------------------------------------------------- the choke-point claim
\* C23: the ledger is the single choke point: in every step, product and part
\* updates included, an item's counters change only together with new ledger rows
\* of that item, one per movement, whose quantity_change adds up to the change of
\* current_stock; a step that adds no row of the item leaves its counters alone.
C23_LedgerIsChokePoint ==
  [][\A key \in DOMAIN items :
       LET n == Len(movements)
           added == SubSeq(movements', n + 1, Len(movements'))
       IN /\ Len(movements') >= n
          /\ SubSeq(movements', 1, n) = movements
          /\ items'[key].current_stock - items[key].current_stock
               = LedgerSum(added, key)
          /\ items'[key].current_stock_damaged # items[key].current_stock_damaged
               => \E k \in 1..Len(added) :
                    /\ <<added[k].item_type, added[k].item_id>> = key
                    /\ added[k].condition = "damaged"]_vars

\* ---------------------------------------------------- the concurrency claim
\* The change of current_stock a request asked for.
Requested(x, key) ==
  IF x.op = "send_items" THEN -LinesSum(x.lines, key) ELSE LinesSum(x.lines, key)

\* The requests that were accepted and committed.
Committed == {t \in Transactions : txns[t].pc = "done" /\ txns[t].ok}

RECURSIVE RequestedSum(_, _)
RequestedSum(T, key) ==
  IF T = {} THEN 0
  ELSE LET t == CHOOSE u \in T : TRUE
       IN Requested(txns[t], key) + RequestedSum(T \ {t}, key)

\* C21: when concurrent stock requests on the same item have ended, each in its
\* own transaction, no update is lost: current_stock is the initial value plus the
\* quantity changes of the accepted requests, valid stock is not negative, and
\* concurrent sends have not together debited more than the valid stock there was.
C21_NoLostUpdate ==
  (\A t \in Transactions : txns[t].pc = "done")
    => \A key \in DOMAIN items :
         /\ items[key].current_stock
              = initial[key].current_stock + RequestedSum(Committed, key)
         /\ get_valid_stock(items[key]) >= 0
         /\ (\A t \in Committed : txns[t].op = "send_items")
              => -RequestedSum(Committed, key) <= get_valid_stock(initial[key])

(***************************************************************************)
(* The two logs together: adjustments of the repair stock and the actions  *)
(* of the maintenance cycle on the order under repair.                     *)
(***************************************************************************)
MaxLogHistory == 2

LogCalls ==
  {<<1, "part", 1, 1, "valid">>, <<1, "part", 1, -1, "valid">>,
   <<1, "part", 1, 1, "damaged">>, <<1, "part", 1, 0, "valid">>}

MaintenanceAdjustmentLogged ==
  \E a \in LogCalls :
    LET r == maintenance_adjustment(Session, a[1], a[2], a[3], a[4], a[5])
    IN /\ Room(1)
       /\ InRange(r.st.items)
       /\ items' = r.st.items
       /\ movements' = r.st.movements
       /\ sa_items' = r.st.sa_items
       /\ result' = StockResult("maintenance_adjustment", r, 0, <<>>)
       /\ call' = Call("maintenance_adjustment", a[1], "", "none")
       /\ before' = items
       /\ OtherTablesUnchanged

PerformActionLogged ==
  \E order_id \in 1..Len(orders), action \in MaintenanceAction,
     action_data \in {ActionData(FALSE, "", 0, ""), ActionData(TRUE, "", 0, "valid")},
     fault \in {"none", "order_save"} :
    /\ Len(history) < MaxLogHistory
    /\ Returns(perform_action(Database, order_id, action, action_data, fault),
               Call("perform_action", order_id, "", fault))

NextLog == MaintenanceAdjustmentLogged \/ PerformActionLogged

SpecLog == InitStock /\ [][NextLog]_vars

\* The log `new` holds every row of `old`, unchanged and in place.
Extends(old, new) ==
  Len(old) <= Len(new) /\ SubSeq(new, 1, Len(old)) = old

C32_ConfirmedImpliesDebited ==
  \A id \in 1..Len(service_actions) :
    (/\ service_actions[id].action_type \in {"part_replace", "full_replace"}
     /\ service_actions[id].status \in {"confirmed", "pending_receive"})
    => \A i \in 1..Len(sa_items) :
         sa_items[i].service_action_id = id
         => \E j \in 1..Len(movements) :
              /\ movements[j].movement_type = "send"
              /\ movements[j].service_action_id = id
              /\ movements[j].item_type = sa_items[i].item_type
              /\ movements[j].item_id = sa_items[i].item_id

RECURSIVE SentUnits(_, _, _)
RECURSIVE PlannedUnits(_, _, _)
\* Units debited by the SEND rows of one service action for one item.
SentUnits(rows, service_action_id, key) ==
  IF rows = <<>> THEN 0
  ELSE LET r == rows[Len(rows)]
       IN SentUnits(SubSeq(rows, 1, Len(rows) - 1), service_action_id, key)
          + (IF /\ r.movement_type = "send"
                /\ r.service_action_id = service_action_id
                /\ <<r.item_type, r.item_id>> = key
               THEN -r.quantity_change ELSE 0)

\* Units planned by the lines of one service action for one item.
PlannedUnits(rows, service_action_id, key) ==
  IF rows = <<>> THEN 0
  ELSE LET r == rows[Len(rows)]
       IN PlannedUnits(SubSeq(rows, 1, Len(rows) - 1), service_action_id, key)
          + (IF /\ r.service_action_id = service_action_id
                /\ <<r.item_type, r.item_id>> = key
               THEN r.quantity_to_send ELSE 0)

\* C33: stock is debited at most once per service action line: after any
\* sequence of confirm_and_send calls, the SEND ledger quantities of an
\* action for an item never exceed the quantity its lines plan to send.
C33_DebitedAtMostOnce ==
  \A id \in 1..Len(service_actions), key \in ExistingItems :
    SentUnits(movements, id, key) <= PlannedUnits(sa_items, id, key)

RECURSIVE ReceivedUnits(_, _, _)
\* Units credited by the RECEIVE rows of one service action for one item.
ReceivedUnits(rows, service_action_id, key) ==
  IF rows = <<>> THEN 0
  ELSE LET r == rows[Len(rows)]
       IN ReceivedUnits(SubSeq(rows, 1, Len(rows) - 1), service_action_id, key)
          + (IF /\ r.movement_type = "receive"
                /\ r.service_action_id = service_action_id
                /\ <<r.item_type, r.item_id>> = key
               THEN r.quantity_change ELSE 0)

RECURSIVE QuantityReceived(_, _, _)
\* quantity_received over the lines of one service action for one item.
QuantityReceived(rows, service_action_id, key) ==
  IF rows = <<>> THEN 0
  ELSE LET r == rows[Len(rows)]
       IN QuantityReceived(SubSeq(rows, 1, Len(rows) - 1), service_action_id, key)
          + (IF /\ r.service_action_id = service_action_id
                /\ <<r.item_type, r.item_id>> = key
               THEN r.quantity_received ELSE 0)

\* C34: for every Service Action Item, quantity_received equals the sum of
\* the quantities of all RECEIVE ledger rows for that action and item, across
\* several receive calls and several lines of one call for the same item.
C34_QuantityReceivedIsLedgerSum ==
  \A id \in 1..Len(service_actions), key \in ExistingItems :
    QuantityReceived(sa_items, id, key) = ReceivedUnits(movements, id, key)

RECURSIVE DamagedLedgerSum(_, _)
\* Sum of quantity_change over the ledger rows of an item with condition damaged.
DamagedLedgerSum(rows, key) ==
  IF rows = <<>> THEN 0
  ELSE LET r == rows[Len(rows)]
       IN DamagedLedgerSum(SubSeq(rows, 1, Len(rows) - 1), key)
          + (IF <<r.item_type, r.item_id>> = key /\ r.condition = "damaged"
               THEN r.quantity_change ELSE 0)

\* C36: damaged-counter reconciliation: an item's current_stock_damaged is its
\* initial value plus the sum of quantity_change over the ledger rows of that
\* item whose condition is damaged, and a movement with condition valid never
\* changes the damaged counter.
C36_DamagedReconciliation ==
  /\ \A k \in DOMAIN items :
       items[k].current_stock_damaged
         = initial[k].current_stock_damaged + DamagedLedgerSum(movements, k)
  /\ \A k \in DOMAIN items, q \in (-MaxQty)..MaxQty :
       update_item_stock(items[k], q, "valid").item.current_stock_damaged
         = items[k].current_stock_damaged

\* C37: a return_from_customer action is closed by process_refund_and_complete
\* only after its returned items were received: no service action has the
\* final status 'completed' with refund_processed set while its status is
\* CREATED or CONFIRMED.
C37_ClosedOnlyAfterReceive ==
  \A id \in 1..Len(service_actions) :
    (service_actions[id].refund_processed
     /\ service_actions[id].final_status = "completed")
      => service_actions[id].status \notin {"created", "confirmed"}

(***************************************************************************)
(* Two requests integrating or scanning follow-up numbers at the same      *)
(* time.  Each request has its own session; every save() of the            *)
(* integration is an INSERT or UPDATE followed at once by a commit, so     *)
(* each is one step on the committed rows, and the steps of the two        *)
(* requests interleave freely.                                             *)
(***************************************************************************)
IntegrationNumbers == {"TRK-1", "TRK-2", "NEW-9", ""}

\* The unique index of orders.tracking_number refuses the INSERT.
order_insert_refused_never(rows, tracking_number) == FALSE

order_insert_refused(rows, tracking_number) ==
  get_by_tracking_number(rows, tracking_number) # 0

Request(pc, op, tracking_number, service_action_id, order_id, now, ok) ==
  [pc |-> pc, op |-> op, tracking_number |-> tracking_number,
   service_action_id |-> service_action_id, order_id |-> order_id,
   now |-> now, ok |-> ok]

RequestUnchanged ==
  UNCHANGED <<items, movements, sa_items, sa_history, before, initial>>

\* The request ends and reports.
Reports(t, x, ok, id, err, is_existing) ==
  /\ txns' = [txns EXCEPT ![t] = [x EXCEPT !.pc = "done", !.ok = ok]]
  /\ result' = [Result(x.op, ok, id, <<>>) EXCEPT !.err = err,
                                                  !.is_existing = is_existing]
  /\ call' = Call(x.op, x.service_action_id, x.tracking_number, "none")

\* ServiceAction.query.filter_by(new_tracking_number=...).first() and the status
\* check; scan_order does the same lookup first and integrates a PENDING_RECEIVE
\* action.
FindAction(t) ==
  \E op \in {"integrate_with_maintenance_cycle", "scan_order"},
     tracking_number \in IntegrationNumbers :
    LET sa == by_new_tracking_number(service_actions, tracking_number)
        x == Request("found", op, tracking_number, sa, 0,
                     get_egypt_now(movements, history, sa_history), FALSE)
    IN /\ txns[t].pc = "idle"
       /\ op = "scan_order" => (sa # 0 /\ service_actions[sa].status = "pending_receive")
       /\ IF tracking_number = ""
            THEN Reports(t, x, FALSE, 0, "tracking_number", FALSE)
          ELSE IF sa = 0
            THEN Reports(t, x, FALSE, 0, "not_found", FALSE)
          ELSE IF service_actions[sa].status # "pending_receive"
            THEN Reports(t, x, FALSE, 0, "not_pending", FALSE)
          ELSE /\ txns' = [txns EXCEPT ![t] = x]
               /\ UNCHANGED <<result, call>>
       /\ UNCHANGED <<service_actions, orders, history, stored>>
       /\ RequestUnchanged

\* Order(...).save(): refused by the unique index when an order holds the number
\* (the except branch rolls back and the integration returns an error; scan_order
\* then goes on to look for an existing order).
SaveOrder(t) ==
  LET x == txns[t]
      id == Len(orders) + 1
      order == [Order(x.tracking_number, "received") EXCEPT
                  !.is_service_action_order = TRUE,
                  !.service_action_id = x.service_action_id,
                  !.scanned_at = x.now, !.received_at = x.now]
  IN /\ x.pc = "found"
     /\ IF order_insert_refused(orders, x.tracking_number)
          THEN /\ IF x.op = "scan_order"
                    THEN /\ txns' = [txns EXCEPT ![t].pc = "refused"]
                         /\ UNCHANGED <<result, call>>
                    ELSE Reports(t, x, FALSE, 0, "storage", FALSE)
               /\ UNCHANGED <<orders, stored>>
          ELSE /\ Len(orders) < MaxOrders
               /\ orders' = Append(orders, order)
               /\ stored' = [stored EXCEPT !.orders = orders']
               /\ txns' = [txns EXCEPT ![t].pc = "order_saved", ![t].order_id = id]
               /\ UNCHANGED <<result, call>>
     /\ UNCHANGED <<service_actions, history>>
     /\ RequestUnchanged

\* history.save()
SaveHistory(t) ==
  LET x == txns[t]
  IN /\ x.pc = "order_saved"
     /\ history' = Append(history,
                          [MaintenanceHistory(x.order_id, "received", x.now) EXCEPT
                             !.service_action_id = x.service_action_id])
     /\ stored' = [stored EXCEPT !.history = history']
     /\ txns' = [txns EXCEPT ![t].pc = "history_saved"]
     /\ UNCHANGED <<service_actions, orders, result, call>>
     /\ RequestUnchanged

\* sa.is_integrated_with_maintenance = True; sa.maintenance_order_id = order.id;
\* sa.save()
SaveAction(t) ==
  LET x == txns[t]
  IN /\ x.pc = "history_saved"
     /\ service_actions' =
          [service_actions EXCEPT
             ![x.service_action_id].is_integrated_with_maintenance = TRUE,
             ![x.service_action_id].integrated_at = x.now,
             ![x.service_action_id].maintenance_order_id = x.order_id]
     /\ stored' = [stored EXCEPT !.service_actions = service_actions']
     /\ Reports(t, x, TRUE, x.order_id, "", FALSE)
     /\ UNCHANGED <<orders, history>>
     /\ RequestUnchanged

\* scan_order after a refused integration: Order.get_by_tracking_number returns
\* the order that holds the number.
ReturnExisting(t) ==
  LET x == txns[t]
      existing_order == get_by_tracking_number(orders, x.tracking_number)
  IN /\ x.pc = "refused"
     /\ existing_order # 0
     /\ Reports(t, x, TRUE, existing_order, "", TRUE)
     /\ UNCHANGED <<service_actions, orders, history, stored>>
     /\ RequestUnchanged

InitIntegration ==
  /\ items = [k \in ExistingItems |->
                [current_stock |-> MaxInitStock, current_stock_damaged |-> 0]]
  /\ movements = <<>>
  /\ sa_items = <<>>
  /\ service_actions =
       <<[ServiceAction("return_from_customer", "ORIG-1", 100) EXCEPT
            !.status = "pending_receive", !.new_tracking_number = "TRK-1"],
         [ServiceAction("full_replace", "ORIG-1", 0) EXCEPT
            !.status = "pending_receive", !.new_tracking_number = "TRK-2"]>>
  /\ sa_history = <<>>
  /\ orders = <<>>
  /\ history = <<>>
  /\ stored = Tables
  /\ result = Result("none", TRUE, 0, <<>>)
  /\ call = Call("none", 0, "", "none")
  /\ before = items
  /\ initial = items
  /\ txns = [t \in Transactions |-> Request("idle", "none", "", 0, 0, 0, FALSE)]

NextIntegration ==
  \E t \in Transactions :
    FindAction(t) \/ SaveOrder(t) \/ SaveHistory(t) \/ SaveAction(t) \/ ReturnExisting(t)

SpecIntegration == InitIntegration /\ [][NextIntegration]_vars

\* The requests for a follow-up number, and those of them that created an order.
RequestsFor(tracking_number) ==
  {t \in Transactions : txns[t].pc # "idle" /\ txns[t].tracking_number = tracking_number}

Creators(tracking_number) ==
  {t \in RequestsFor(tracking_number) : txns[t].order_id # 0}

\* C38: under two concurrent integrate_with_maintenance_cycle calls or scans
\* for the same follow-up tracking number, at most one Order with the number
\* is created, at most one call creates it, and once the calls have ended the
\* Service Action has maintenance_order_id equal to the id of the only Order
\* with that tracking number.
C38_ConcurrentIntegrationOnce ==
  \A n \in IntegrationNumbers :
    /\ Cardinality({i \in 1..Len(orders) : orders[i].tracking_number = n}) <= 1
    /\ Cardinality(Creators(n)) <= 1
    /\ (RequestsFor(n) # {} /\ \A t \in RequestsFor(n) : txns[t].pc = "done")
         => \A i \in 1..Len(orders) :
              orders[i].tracking_number = n
                => LET sa == by_new_tracking_number(service_actions, n)
                   IN /\ sa # 0
                      /\ service_actions[sa].is_integrated_with_maintenance
                      /\ service_actions[sa].maintenance_order_id = i
                      /\ orders[i].service_action_id = sa

\* Both requests ran for the same number: one created the order and flagged the
\* action, the other one, started before that order was saved, was refused.
C38_Witness ==
  /\ txns[1].pc = "done" /\ txns[2].pc = "done"
  /\ txns[1].tracking_number = "TRK-1" /\ txns[2].tracking_number = "TRK-1"
  /\ txns[1].ok /\ txns[1].order_id = 1
  /\ txns[2].op = "integrate_with_maintenance_cycle" /\ ~txns[2].ok
  /\ txns[2].now = txns[1].now
  /\ service_actions[1].maintenance_order_id = 1

MaxFinishSteps == 3

FinishDatas == {ActionData(FALSE, "", 0, ""), ActionData(TRUE, "", 0, "valid")}

RECURSIVE CanFinish(_, _, _)
\* Some sequence of at most n accepted actions takes the order to SENDING or
\* RETURNED.
CanFinish(db, order_id, n) ==
  \/ db.session.orders[order_id].status \in {"sending", "returned"}
  \/ /\ n > 0
     /\ \E action \in MaintenanceAction, action_data \in FinishDatas :
          LET r == perform_action(db, order_id, action, action_data, "none")
          IN r.result.ok /\ CanFinish(r.db, order_id, n - 1)

\* C39: no non-terminal order status is a dead end: for an order in RECEIVED,
\* IN_MAINTENANCE, COMPLETED or FAILED at least one action is accepted by
\* perform_action, and a terminal status (SENDING or RETURNED) is reachable
\* from it by some sequence of accepted actions.
C39_NoDeadEnd ==
  \A order_id \in 1..Len(orders) :
    orders[order_id].status \in {"received", "in_maintenance", "completed", "failed"}
      => /\ \E action \in MaintenanceAction, action_data \in ActionDatas :
              LET r == Outcome(order_id, action, action_data)
              IN /\ r.result.ok
                 /\ r.db.session.orders[order_id].status # orders[order_id].status
         /\ CanFinish(Database, order_id, MaxFinishSteps)

\* An order went the whole way: received, repaired, completed and sent out.
C39_Witness ==
  /\ result.op = "perform_action" /\ result.ok
  /\ orders[result.id].status = "sending"
  /\ Len(RowsOf(history, result.id)) = 4
  /\ history[Len(history)].action = "send_order"
  /\ \E i \in 1..Len(history) : history[i].action = "complete_maintenance"

====
